---- MODULE Spec2Model ----
(***************************************************************************)
(* A model of bashcodeshift's Transformer (core/transformer.ts) and of the *)
(* BashParser normalizer (core/parser.ts) it parses with.                  *)
(*                                                                         *)
(* Objects live in a heap: every canonical node is a heap cell with an     *)
(* identity, child sequences are JS arrays of node references (0 is an     *)
(* empty slot / undefined), and a handle captures a node reference and a   *)
(* path of {node, index} steps with 0-based indices, as the code does.     *)
(***************************************************************************)
EXTENDS Integers, Sequences, FiniteSets, TLC

VARIABLES
    heap,        \* node id -> canonical node record (all objects ever created)
    nextId,      \* the next unused object identity
    asts,        \* asts[k]: the root node the API of the k-th b() call closes over
    rootAST,     \* Transformer.rootAST: 0 (null) or the root of the latest parse
    collection,  \* the NodePath[] returned by the latest find
    query,       \* the api, kind and filter of the latest find
    log,         \* mutator calls made through `collection` since that find
    calls,       \* API calls made so far: b(), find and mutator calls
    parses,      \* the b() calls so far: the parser's result and what b returned or raised
    builds,      \* the node builder calls so far: kind, props and returned node
    source,      \* the latest toSource call: its api, options, returned text, and the heap then
    stats,       \* Runner.stats
    run,         \* the run() invocation in progress: its position, options and files
    disk         \* the files of the file system the Runner works on

vars == <<heap, nextId, asts, rootAST, collection, query, log, calls,
          parses, builds, source, stats, run, disk>>

genVars == <<builds, source>>
runVars == <<stats, run, disk>>

(***************************************************************************)
(* Bounds of the model.                                                    *)
(***************************************************************************)
MaxCalls == 5       \* calls (b, find, mutators) made on the one Transformer
MaxParses == 2      \* b() calls among them

Null == 0           \* null / undefined / an empty array slot

Min(a, b) == IF a < b THEN a ELSE b

RECURSIVE Flatten(_)
Flatten(ss) == IF ss = <<>> THEN <<>> ELSE Head(ss) \o Flatten(Tail(ss))

Range(s) == { s[i] : i \in DOMAIN s }

(***************************************************************************)
(* Raw parse trees: what the external parser (@isdk/bash-parser) hands to  *)
(* the normalizer.  A raw tree is an arena raw id -> raw node, root 1.  A  *)
(* field holding children is an array of raw nodes (Arr) or one raw node   *)
(* (Obj); extractBody accepts both.                                        *)
(***************************************************************************)
Arr(ids) == [isArray |-> TRUE, ids |-> ids]
Obj(id) == [isArray |-> FALSE, ids |-> <<id>>]

\* if c; then npm run build; else echo no; fi; cat | npm test;
\* npm install > out; for x; do docker run; done
SrcIf ==
    <<  [type |-> "Script", body |-> Arr(<<2, 5, 8, 10>>)],
        [type |-> "If", condition |-> "c", then |-> Arr(<<3>>), else |-> Arr(<<4>>)],
        [type |-> "Command", name |-> "npm", args |-> <<"run", "build">>],
        [type |-> "Command", name |-> "echo", args |-> <<"no">>],
        [type |-> "Pipeline", commands |-> <<6, 7>>, negated |-> FALSE],
        [type |-> "Command", name |-> "cat", args |-> <<>>],
        [type |-> "Command", name |-> "npm", args |-> <<"test">>],
        [type |-> "Command", name |-> "npm", args |-> <<"install">>, redirects |-> <<9>>],
        [type |-> "Redirect", operator |-> ">", target |-> "out"],
        [type |-> "For", variable |-> "x", body |-> Arr(<<11>>)],
        [type |-> "Command", name |-> "docker", args |-> <<"run">>]  >>

\* function f() { for x; do while c; do npm install; npm install; done; ls; done; }
\* (npm test)
\* the function's body is one CompoundList node wrapping its statements
SrcNested ==
    <<  [type |-> "Script", body |-> Arr(<<2, 9>>)],
        [type |-> "Function", name |-> "f", body |-> Obj(3)],
        [type |-> "CompoundList", body |-> Arr(<<4>>)],
        [type |-> "For", variable |-> "x", body |-> Arr(<<5, 8>>)],
        [type |-> "While", condition |-> "c", body |-> Arr(<<6, 7>>)],
        [type |-> "Command", name |-> "npm", args |-> <<"install">>],
        [type |-> "Command", name |-> "npm", args |-> <<"install">>],
        [type |-> "Command", name |-> "ls", args |-> <<>>],
        [type |-> "Subshell", body |-> Arr(<<10>>)],
        [type |-> "Command", name |-> "npm", args |-> <<"test">>]  >>

Sources == {SrcIf, SrcNested}

\* npm install
SrcNpm ==
    <<  [type |-> "Script", body |-> Arr(<<2>>)],
        [type |-> "Command", name |-> "npm", args |-> <<"install">>]  >>

\* # build
\* export A=1
\* ! cat | npm test
\* ls 2>err
SrcMisc ==
    <<  [type |-> "Script", body |-> Arr(<<2, 3, 4, 7>>)],
        [type |-> "Comment", value |-> "build"],
        [type |-> "Assignment", name |-> "A", value |-> "1", export |-> TRUE],
        [type |-> "Pipeline", commands |-> <<5, 6>>, negated |-> TRUE],
        [type |-> "Command", name |-> "cat", args |-> <<>>],
        [type |-> "Command", name |-> "npm", args |-> <<"test">>],
        [type |-> "Command", name |-> "ls", args |-> <<>>, redirects |-> <<8>>],
        [type |-> "Redirect", operator |-> ">", target |-> "err", fd |-> 2]  >>

(***************************************************************************)
(* BashParser: the normalizer.  The canonical node converted from raw node *)
(* i of a parse gets the identity base + i; the Program node gets base.    *)
(***************************************************************************)
KnownTypes == {"Command", "Assignment", "If", "For", "While", "Function",
               "Pipeline", "Subshell", "Comment"}

\* the ids walkNode pushes onto `body` for raw node i
RECURSIVE walkNode(_, _, _)
walkNode(R, i, base) ==
    LET node == R[i]
        children == IF "body" \in DOMAIN node /\ node.body.isArray
                    THEN Flatten([k \in DOMAIN node.body.ids |->
                                    walkNode(R, node.body.ids[k], base)])
                    ELSE <<>>
    IN  IF node.type \in KnownTypes THEN <<base + i>> ELSE children

\* extractBody(node[field]) for a field that may be absent (undefined)
extractBody(R, node, field, base) ==
    IF field \notin DOMAIN node THEN <<>>
    ELSE Flatten([k \in DOMAIN node[field].ids |-> walkNode(R, node[field].ids[k], base)])

\* a JS array of strings with its own identity
Array(ref, elems) == [ref |-> ref, elems |-> elems]

convertCommand(R, i, base) ==
    LET node == R[i]
        cmd == [type |-> "Command", name |-> node.name,
                arguments |-> Array(base + i, node.args)]
    IN  IF "redirects" \in DOMAIN node
        THEN cmd @@ [redirects |-> [k \in DOMAIN node.redirects |-> base + node.redirects[k]]]
        ELSE cmd

convertRedirect(R, i, base) ==
    LET redirect == [type |-> "Redirect", operator |-> R[i].operator, target |-> R[i].target]
    IN  IF "fd" \in DOMAIN R[i] THEN redirect @@ [fd |-> R[i].fd] ELSE redirect

convertVariableAssignment(R, i, base) ==
    [type |-> "Variable", name |-> R[i].name, value |-> R[i].value,
     export |-> ("export" \in DOMAIN R[i] /\ R[i].export),
     readonly |-> ("readonly" \in DOMAIN R[i] /\ R[i].readonly)]

convertComment(R, i, base) ==
    [type |-> "Comment", value |-> R[i].value,
     kind |-> IF "kind" \in DOMAIN R[i] THEN R[i].kind ELSE "line"]

convertIfStatement(R, i, base) ==
    LET node == R[i]
        cond == [type |-> "Conditional", condition |-> node.condition,
                 consequent |-> extractBody(R, node, "then", base)]
    IN  IF "else" \in DOMAIN node
        THEN cond @@ [alternate |-> extractBody(R, node, "else", base)]
        ELSE cond   \* alternate: null

convertForStatement(R, i, base) ==
    [type |-> "Loop", kind |-> "for", variable |-> R[i].variable,
     body |-> extractBody(R, R[i], "body", base)]

convertWhileStatement(R, i, base) ==
    [type |-> "Loop", kind |-> "while", condition |-> R[i].condition,
     body |-> extractBody(R, R[i], "body", base)]

convertFunctionDefinition(R, i, base) ==
    [type |-> "Function", name |-> R[i].name,
     body |-> extractBody(R, R[i], "body", base)]

convertPipeline(R, i, base) ==
    [type |-> "Pipeline", negated |-> R[i].negated,
     commands |-> [k \in DOMAIN R[i].commands |-> base + R[i].commands[k]]]

convertSubshell(R, i, base) ==
    [type |-> "Subshell", body |-> extractBody(R, R[i], "body", base)]

\* the canonical node built for raw node i
convert(R, i, base) ==
    CASE R[i].type = "Command"  -> convertCommand(R, i, base)
      [] R[i].type = "Redirect" -> convertRedirect(R, i, base)
      [] R[i].type = "If"       -> convertIfStatement(R, i, base)
      [] R[i].type = "For"      -> convertForStatement(R, i, base)
      [] R[i].type = "While"    -> convertWhileStatement(R, i, base)
      [] R[i].type = "Function" -> convertFunctionDefinition(R, i, base)
      [] R[i].type = "Pipeline" -> convertPipeline(R, i, base)
      [] R[i].type = "Subshell" -> convertSubshell(R, i, base)
      [] R[i].type = "Assignment" -> convertVariableAssignment(R, i, base)
      [] R[i].type = "Comment"  -> convertComment(R, i, base)

\* the fields of a canonical node that hold child nodes
ChildFields == {"body", "consequent", "alternate", "commands", "redirects"}

ChildIds(node) ==
    UNION { Range(node[f]) : f \in ChildFields \cap DOMAIN node } \ {Null}

\* the objects one parse creates: the Program node and every converted node
RECURSIVE created(_, _, _, _)
created(R, base, todo, done) ==
    IF todo = {} THEN done
    ELSE LET id == CHOOSE x \in todo : TRUE
             kids == ChildIds(convert(R, id - base, base))
         IN  created(R, base, (todo \cup kids) \ (done \cup {id}), done \cup {id})

\* BashParser.parse: the Program node and the heap cells of its tree
convertToJSCodeshiftAST(R, base) ==
    LET program == [type |-> "Program", body |-> walkNode(R, 1, base)]
        ids == created(R, base, Range(program.body), {})
    IN  [i \in ids \cup {base} |-> IF i = base THEN program ELSE convert(R, i - base, base)]

(***************************************************************************)
(* JS values as far as filters need them: strings, arrays of strings with  *)
(* an identity, and undefined.                                             *)
(***************************************************************************)
Undefined == [t |-> "undefined", v |-> "", ref |-> 0, elems |-> <<>>]
Str(s) == [t |-> "string", v |-> s, ref |-> 0, elems |-> <<>>]
ArrayValue(a) == [t |-> "array", v |-> "", ref |-> a.ref, elems |-> a.elems]

StringFields == {"type", "name", "kind", "condition", "variable", "operator", "target"}

\* node[key]
Prop(node, key) ==
    IF key \notin DOMAIN node THEN Undefined
    ELSE IF key = "arguments" THEN ArrayValue(node.arguments)
    ELSE IF key \in StringFields THEN Str(node[key])
    ELSE Undefined

\* a === b: strings by value, arrays by identity
StrictEquals(a, b) ==
    /\ a.t = b.t
    /\ a.t = "string" => a.v = b.v
    /\ a.t = "array" => a.ref = b.ref

arraysEqual(arr1, arr2) ==
    IF arr1.t # "array" \/ arr2.t # "array" THEN FALSE
    ELSE IF Len(arr1.elems) # Len(arr2.elems) THEN FALSE
    ELSE \A index \in DOMAIN arr1.elems : arr1.elems[index] = arr2.elems[index]

\* a filter object is its list of own properties, [key, value] each
Keys(filter) == { filter[k].key : k \in DOMAIN filter }
FilterGet(filter, key) == filter[CHOOSE k \in DOMAIN filter : filter[k].key = key].value

\* matchesFilter without the element-wise comparison of `arguments`
matchesFilter_identityOnly(node, filter) ==
    \A key \in Keys(filter) : StrictEquals(Prop(node, key), FilterGet(filter, key))

matchesFilter(node, filter) ==
    \A key \in Keys(filter) :
        IF key = "arguments" /\ FilterGet(filter, key).t = "array"
        THEN arraysEqual(Prop(node, "arguments"), FilterGet(filter, key))
        ELSE StrictEquals(Prop(node, key), FilterGet(filter, key))

(***************************************************************************)
(* Transformer: traversal and query.                                       *)
(***************************************************************************)
\* node.body && Array.isArray(node.body)
HasBody(h, id) == id # Null /\ "body" \in DOMAIN h[id]

\* walkAST with the callback made after the children's walks
RECURSIVE walkAST_childrenFirst(_, _, _)
walkAST_childrenFirst(h, node, path) ==
    (IF node # Null /\ "body" \in DOMAIN h[node]
     THEN Flatten([k \in DOMAIN h[node].body |->
            LET child == h[node].body[k]
            IN  IF child = Null THEN <<>>
                ELSE walkAST_childrenFirst(h, child,
                        Append(path, [node |-> child, index |-> k - 1]))])
     ELSE <<>>)
    \o <<[node |-> node, path |-> path]>>

\* walkAST numbering the children of a body from 1
RECURSIVE walkAST_oneBased(_, _, _)
walkAST_oneBased(h, node, path) ==
    <<[node |-> node, path |-> path]>> \o
    IF HasBody(h, node)
    THEN Flatten([k \in DOMAIN h[node].body |->
            LET child == h[node].body[k]
            IN  IF child = Null THEN <<>>
                ELSE walkAST_oneBased(h, child,
                        Append(path, [node |-> child, index |-> k]))])
    ELSE <<>>

\* the (node, path) pairs walkAST hands to its callback, in call order;
\* Array.forEach skips empty slots
RECURSIVE walkAST(_, _, _)
walkAST(h, node, path) ==
    <<[node |-> node, path |-> path]>> \o
    IF HasBody(h, node)
    THEN Flatten([k \in DOMAIN h[node].body |->
            LET child == h[node].body[k]
            IN  IF child = Null THEN <<>>
                ELSE walkAST(h, child, Append(path, [node |-> child, index |-> k - 1]))])
    ELSE <<>>

PathOf(visit) == [value |-> visit.node, path |-> visit.path]

findNodes(h, ast, nodeType, filter) ==
    LET visits == walkAST(h, ast, <<>>)
        Matches(v) == h[v.node].type = nodeType /\ matchesFilter(h[v.node], filter)
        hits == SelectSeq(visits, Matches)
    IN  [k \in DOMAIN hits |-> PathOf(hits[k])]

\* the nodes reachable from `todo` through the given child fields
RECURSIVE ReachVia(_, _, _, _)
ReachVia(h, fields, todo, done) ==
    IF todo = {} THEN done
    ELSE LET id == CHOOSE x \in todo : TRUE
             kids == UNION { Range(h[id][f]) : f \in fields \cap DOMAIN h[id] } \ {Null}
         IN  ReachVia(h, fields, (todo \cup kids) \ (done \cup {id}), done \cup {id})

(***************************************************************************)
(* Transformer: the path-addressed mutators.                               *)
(***************************************************************************)
RECURSIVE getNodeAtPathFrom(_, _, _)
getNodeAtPathFrom(h, current, path) ==
    IF path = <<>> THEN current
    ELSE IF HasBody(h, current)
         THEN LET index == Head(path).index
                  next == IF index < Len(h[current].body)
                          THEN h[current].body[index + 1] ELSE Null
              IN  getNodeAtPathFrom(h, next, Tail(path))
         ELSE Null

getNodeAtPath(h, root, path) == getNodeAtPathFrom(h, root, path)

\* path.slice(0, -1)
Init1(path) == SubSeq(path, 1, Len(path) - 1)

\* an assignment that shifts the old elements up instead of overwriting one
ArraySet_shifting(arr, index, value) ==
    LET at == Min(index, Len(arr))
    IN  SubSeq(arr, 1, at) \o <<value>> \o SubSeq(arr, at + 1, Len(arr))

\* arr[index] = value; an index past the end leaves empty slots in between
ArraySet(arr, index, value) ==
    IF index < Len(arr) THEN [arr EXCEPT ![index + 1] = value]
    ELSE arr \o [k \in 1..(index - Len(arr)) |-> Null] \o <<value>>

\* arr.splice(start, 0, value)
SpliceInsert(arr, start, value) ==
    LET at == Min(start, Len(arr))
    IN  SubSeq(arr, 1, at) \o <<value>> \o SubSeq(arr, at + 1, Len(arr))

\* a removal that is off by one: arr.splice(start + 1, 1)
SpliceRemove_next(arr, start) ==
    IF start + 1 < Len(arr)
    THEN SubSeq(arr, 1, start + 1) \o SubSeq(arr, start + 3, Len(arr))
    ELSE arr

\* arr.splice(start, 1)
SpliceRemove(arr, start) ==
    IF start < Len(arr)
    THEN SubSeq(arr, 1, start) \o SubSeq(arr, start + 2, Len(arr))
    ELSE arr

\* the parent whose body a mutator edits, Null when the mutator returns early
MutatedParent(h, root, path) ==
    IF Len(path.path) = 0 THEN Null
    ELSE LET parent == getNodeAtPath(h, root, Init1(path.path))
         IN  IF HasBody(h, parent) THEN parent ELSE Null

LastIndex(path) == path.path[Len(path.path)].index

replaceNode(h, root, path, newNode) ==
    LET parent == MutatedParent(h, root, path)
    IN  IF parent = Null THEN h
        ELSE [h EXCEPT ![parent].body = ArraySet(@, LastIndex(path), newNode)]

insertBeforeNode(h, root, path, newNode) ==
    LET parent == MutatedParent(h, root, path)
    IN  IF parent = Null THEN h
        ELSE [h EXCEPT ![parent].body = SpliceInsert(@, LastIndex(path), newNode)]

\* insertAfter splicing at the captured index itself
insertAfterNode_atIndex(h, root, path, newNode) ==
    LET parent == MutatedParent(h, root, path)
    IN  IF parent = Null THEN h
        ELSE [h EXCEPT ![parent].body = SpliceInsert(@, LastIndex(path), newNode)]

insertAfterNode(h, root, path, newNode) ==
    LET parent == MutatedParent(h, root, path)
    IN  IF parent = Null THEN h
        ELSE [h EXCEPT ![parent].body = SpliceInsert(@, LastIndex(path) + 1, newNode)]

\* remove without the early return for the root: empties the Program
removeNode_rootToo(h, root, path) ==
    IF Len(path.path) = 0
    THEN IF root # Null THEN [h EXCEPT ![root].body = <<>>] ELSE h
    ELSE LET parent == MutatedParent(h, root, path)
         IN  IF parent = Null THEN h
             ELSE [h EXCEPT ![parent].body = SpliceRemove(@, LastIndex(path))]

\* a remove that looks its node up in the parent instead of trusting the
\* captured index: parent.body.splice(parent.body.indexOf(path.value), 1)
removeNode_byValue(h, root, path) ==
    LET parent == MutatedParent(h, root, path)
        Other(n) == n # path.value
    IN  IF parent = Null THEN h
        ELSE [h EXCEPT ![parent].body = SelectSeq(@, Other)]

removeNode(h, root, path) ==
    LET parent == MutatedParent(h, root, path)
    IN  IF parent = Null THEN h
        ELSE [h EXCEPT ![parent].body = SpliceRemove(@, LastIndex(path))]

\* prune left as a stub that removes nothing
pruneNode_stub(h, root, path) == h

pruneNode(h, root, path) == removeNode(h, root, path)

(***************************************************************************)
(* Node builders (the Command builder is the one the transforms use to     *)
(* make the nodes they insert).                                            *)
(***************************************************************************)
BuildCommand(id, props) ==
    props @@ [type |-> "Command", name |-> "", arguments |-> Array(id, <<>>)]

\* The other builders.  A builder's result is a JS object: { defaults,
\* ...props }.  A default array literal is a new array at every call (it gets
\* the identity `id` of the call); an array in props keeps its own identity.
BuildVariable(id, props) ==
    props @@ [type |-> "Variable", name |-> "", value |-> ""]

BuildConditional(id, props) ==
    props @@ [type |-> "Conditional", condition |-> "", consequent |-> Array(id, <<>>)]

BuildLoop(id, props) ==
    props @@ [type |-> "Loop", kind |-> "for", body |-> Array(id, <<>>)]

BuildFunction(id, props) ==
    props @@ [type |-> "Function", name |-> "", body |-> Array(id, <<>>)]

BuildPipeline(id, props) ==
    props @@ [type |-> "Pipeline", commands |-> Array(id, <<>>)]

BuildRedirect(id, props) ==
    props @@ [type |-> "Redirect", operator |-> "", target |-> ""]

BuildSubshell(id, props) ==
    props @@ [type |-> "Subshell", body |-> Array(id, <<>>)]

BuildComment(id, props) ==
    props @@ [type |-> "Comment", value |-> "", kind |-> "line"]

BuilderKinds == {"Command", "Variable", "Conditional", "Loop", "Function",
                 "Pipeline", "Redirect", "Subshell", "Comment"}

\* builders whose default arrays are one shared array instead of a new one
\* per call
Build_sharedDefaults(kind, id, props) ==
    CASE kind = "Command"     -> BuildCommand(0, props)
      [] kind = "Variable"    -> BuildVariable(0, props)
      [] kind = "Conditional" -> BuildConditional(0, props)
      [] kind = "Loop"        -> BuildLoop(0, props)
      [] kind = "Function"    -> BuildFunction(0, props)
      [] kind = "Pipeline"    -> BuildPipeline(0, props)
      [] kind = "Redirect"    -> BuildRedirect(0, props)
      [] kind = "Subshell"    -> BuildSubshell(0, props)
      [] kind = "Comment"     -> BuildComment(0, props)

\* api[kind](props)
Build(kind, id, props) ==
    CASE kind = "Command"     -> BuildCommand(id, props)
      [] kind = "Variable"    -> BuildVariable(id, props)
      [] kind = "Conditional" -> BuildConditional(id, props)
      [] kind = "Loop"        -> BuildLoop(id, props)
      [] kind = "Function"    -> BuildFunction(id, props)
      [] kind = "Pipeline"    -> BuildPipeline(id, props)
      [] kind = "Redirect"    -> BuildRedirect(id, props)
      [] kind = "Subshell"    -> BuildSubshell(id, props)
      [] kind = "Comment"     -> BuildComment(id, props)

(***************************************************************************)
(* Transformer: the source generator.  A text is a sequence of pieces: the *)
(* words of the nodes, the generator's keywords and punctuation, single    *)
(* spaces " " and line endings.                                            *)
(***************************************************************************)
\* a string as a text; the empty string is the empty text
Text(str) == IF str = "" THEN <<>> ELSE <<str>>

\* `${node[key]}`: a missing field prints as undefined
Interpolate(node, key) == IF key \in DOMAIN node THEN Text(node[key]) ELSE <<"undefined">>

\* parts.join(sep)
RECURSIVE Join(_, _)
Join(parts, sep) ==
    IF parts = <<>> THEN <<>>
    ELSE IF Len(parts) = 1 THEN parts[1]
    ELSE parts[1] \o sep \o Join(Tail(parts), sep)

\* options.lineEnding || '\n'
LineEnding(options) ==
    IF "lineEnding" \in DOMAIN options /\ options.lineEnding # ""
    THEN <<options.lineEnding>> ELSE <<"\n">>

\* the two spaces the generator writes before a child
TwoSpaces == <<" ", " ">>

\* a Command written with the separators of its arguments and redirects
\* even when it has none of them
CommandSource_alwaysJoins(node, redirects) ==
    Text(node.name)
    \o <<" ">> \o Join([k \in DOMAIN node.arguments.elems |->
                            Text(node.arguments.elems[k])], <<" ">>)
    \o <<" ">> \o Join(redirects, <<" ">>)

\* case 'Command'; `redirects` are the texts of node.redirects, <<>> when
\* the node has no redirects field
CommandSource(node, redirects) ==
    Text(node.name)
    \o (IF node.arguments.elems # <<>>
        THEN <<" ">> \o Join([k \in DOMAIN node.arguments.elems |->
                                Text(node.arguments.elems[k])], <<" ">>)
        ELSE <<>>)
    \o (IF redirects # <<>> THEN <<" ">> \o Join(redirects, <<" ">>) ELSE <<>>)

\* array.map(child => astToSource(child)) skips the empty slots of a sparse
\* array, and join prints them as empty strings
RECURSIVE astToSource(_, _, _)
astToSource(h, id, options) ==
    LET node == h[id]
        lineEnding == LineEnding(options)
        Child(seq, before) ==
            [k \in DOMAIN seq |->
                IF seq[k] = Null THEN <<>> ELSE before \o astToSource(h, seq[k], options)]
    IN  CASE node.type = "Program" -> Join(Child(node.body, <<>>), lineEnding)
          [] node.type = "Command" ->
                CommandSource(node, IF "redirects" \in DOMAIN node
                                    THEN Child(node.redirects, <<>>) ELSE <<>>)
          [] node.type = "Variable" ->
                (IF "readonly" \in DOMAIN node /\ node.readonly
                 THEN <<"readonly", " ">> ELSE <<>>)
                \o (IF "export" \in DOMAIN node /\ node.export
                    THEN <<"export", " ">> ELSE <<>>)
                \o Text(node.name) \o <<"=">> \o Text(node.value)
          [] node.type = "Conditional" ->
                <<"if", " ">> \o Text(node.condition) \o <<";", " ", "then">> \o lineEnding
                \o Join(Child(node.consequent, TwoSpaces), lineEnding)
                \o (IF "alternate" \in DOMAIN node
                    THEN lineEnding \o <<"else">> \o lineEnding
                         \o Join(Child(node.alternate, TwoSpaces), lineEnding)
                    ELSE <<>>)
                \o lineEnding \o <<"fi">>
          [] node.type = "Loop" ->
                IF node.kind = "for"
                THEN <<"for", " ">> \o Interpolate(node, "variable") \o <<";", " ", "do">>
                     \o lineEnding \o TwoSpaces
                     \o Join(Child(node.body, <<>>), lineEnding \o TwoSpaces)
                     \o lineEnding \o <<"done">>
                ELSE IF node.kind = "while"
                THEN <<"while", " ">> \o Interpolate(node, "condition") \o <<";", " ", "do">>
                     \o lineEnding \o TwoSpaces
                     \o Join(Child(node.body, <<>>), lineEnding \o TwoSpaces)
                     \o lineEnding \o <<"done">>
                ELSE <<>>
          [] node.type = "Function" ->
                <<"function", " ">> \o Text(node.name) \o <<"()", " ", "{">>
                \o lineEnding \o TwoSpaces
                \o Join(Child(node.body, <<>>), lineEnding \o TwoSpaces)
                \o lineEnding \o <<"}">>
          [] node.type = "Pipeline" ->
                (IF "negated" \in DOMAIN node /\ node.negated THEN <<"!">> ELSE <<>>)
                \o Join(Child(node.commands, <<>>), <<" ", "|", " ">>)
          [] node.type = "Redirect" ->
                (IF "fd" \in DOMAIN node THEN <<ToString(node.fd)>> ELSE <<>>)
                \o Text(node.operator) \o Text(node.target)
          [] node.type = "Subshell" ->
                <<"(">> \o Join(Child(node.body, <<>>), <<";", " ">>) \o <<")">>
          [] node.type = "Comment" -> <<"#", " ">> \o Text(node.value)
          [] OTHER -> <<>>

generateSource(h, ast, options) == astToSource(h, ast, options)

(***************************************************************************)
(* The calls a transform makes.                                            *)
(***************************************************************************)
FilterArray(elems) == [t |-> "array", v |-> "", ref |-> 0, elems |-> elems]

NoFilter == <<>>
NameIs(name) == <<[key |-> "name", value |-> Str(name)]>>

\* the find calls of a transform that goes on to mutate
Queries ==
    {   [kind |-> "Program", filter |-> NoFilter],
        [kind |-> "Command", filter |-> NoFilter],
        [kind |-> "Command", filter |-> NameIs("npm")],
        [kind |-> "Loop", filter |-> NoFilter]  }

BuilderProps == { [name |-> "echo"] }

\* toSource has not been called
NoSource == [api |-> 0, options |-> <<>>, text |-> <<>>, heap |-> <<>>]

\* the files on disk before the Runner starts, each with its content
FileNames == {"a.sh", "b.sh", "c.sh"}
Files == [f \in FileNames |-> "old"]

\* new Runner(): no run() made yet
Idle ==
    [pc |-> "idle", n |-> 0, module |-> "", patterns |-> <<>>, dry |-> FALSE,
     paths |-> <<>>, next |-> 1, failed |-> {}, differ |-> {},
     before |-> [processed |-> 0, changed |-> 0, errors |-> 0], diskBefore |-> Files]

Init ==
    /\ heap = <<>>
    /\ nextId = 1
    /\ asts = <<>>
    /\ rootAST = Null
    /\ collection = <<>>
    /\ query = [api |-> 0, kind |-> "", filter |-> <<>>]
    /\ log = <<>>
    /\ calls = 0
    /\ parses = <<>>
    /\ builds = <<>>
    /\ source = NoSource
    /\ stats = [processed |-> 0, changed |-> 0, errors |-> 0]
    /\ run = Idle
    /\ disk = Files

\* api = transformer.b(source)
B(R) ==
    /\ calls < MaxCalls
    /\ Len(asts) < MaxParses
    /\ heap' = convertToJSCodeshiftAST(R, nextId) @@ heap
    /\ nextId' = nextId + Len(R) + 1
    /\ asts' = Append(asts, nextId)
    /\ rootAST' = nextId
    /\ calls' = calls + 1
    /\ parses' = Append(parses, [raw |-> R, threw |-> FALSE, raised |-> "",
                                 message |-> <<>>, ast |-> nextId])
    /\ UNCHANGED <<collection, query, log>>
    /\ UNCHANGED <<genVars, runVars>>

\* collection = api.find(nodeType, filter)
Find(api, nodeType, filter) ==
    /\ calls < MaxCalls
    /\ collection' = findNodes(heap, asts[api], nodeType, filter)
    /\ query' = [api |-> api, kind |-> nodeType, filter |-> filter]
    /\ log' = <<>>
    /\ calls' = calls + 1
    /\ UNCHANGED <<heap, nextId, asts, rootAST>>
    /\ UNCHANGED <<parses, genVars, runVars>>

Logged(op, k, newNode) ==
    Append(log, [op |-> op, handle |-> k, newNode |-> newNode,
                 pre |-> heap, root |-> rootAST])

\* collection[k].replace(api.Command(props))
Replace(k, props) ==
    /\ calls < MaxCalls
    /\ LET built == nextId :> BuildCommand(nextId, props) @@ heap
       IN  heap' = replaceNode(built, rootAST, collection[k], nextId)
    /\ nextId' = nextId + 1
    /\ log' = Logged("replace", k, nextId)
    /\ calls' = calls + 1
    /\ UNCHANGED <<asts, rootAST, collection, query>>
    /\ UNCHANGED <<parses, genVars, runVars>>

\* collection[k].insertBefore(api.Command(props))
InsertBefore(k, props) ==
    /\ calls < MaxCalls
    /\ LET built == nextId :> BuildCommand(nextId, props) @@ heap
       IN  heap' = insertBeforeNode(built, rootAST, collection[k], nextId)
    /\ nextId' = nextId + 1
    /\ log' = Logged("insertBefore", k, nextId)
    /\ calls' = calls + 1
    /\ UNCHANGED <<asts, rootAST, collection, query>>
    /\ UNCHANGED <<parses, genVars, runVars>>

\* collection[k].insertAfter(api.Command(props))
InsertAfter(k, props) ==
    /\ calls < MaxCalls
    /\ LET built == nextId :> BuildCommand(nextId, props) @@ heap
       IN  heap' = insertAfterNode(built, rootAST, collection[k], nextId)
    /\ nextId' = nextId + 1
    /\ log' = Logged("insertAfter", k, nextId)
    /\ calls' = calls + 1
    /\ UNCHANGED <<asts, rootAST, collection, query>>
    /\ UNCHANGED <<parses, genVars, runVars>>

\* collection[k].remove()
Remove(k) ==
    /\ calls < MaxCalls
    /\ heap' = removeNode(heap, rootAST, collection[k])
    /\ log' = Logged("remove", k, Null)
    /\ calls' = calls + 1
    /\ UNCHANGED <<nextId, asts, rootAST, collection, query>>
    /\ UNCHANGED <<parses, genVars, runVars>>

\* collection[k].prune()
Prune(k) ==
    /\ calls < MaxCalls
    /\ heap' = pruneNode(heap, rootAST, collection[k])
    /\ log' = Logged("prune", k, Null)
    /\ calls' = calls + 1
    /\ UNCHANGED <<nextId, asts, rootAST, collection, query>>
    /\ UNCHANGED <<parses, genVars, runVars>>

Next ==
    \/ \E R \in Sources : B(R)
    \/ \E api \in DOMAIN asts, q \in Queries : Find(api, q.kind, q.filter)
    \/ \E k \in DOMAIN collection, props \in BuilderProps : Replace(k, props)
    \/ \E k \in DOMAIN collection, props \in BuilderProps : InsertBefore(k, props)
    \/ \E k \in DOMAIN collection, props \in BuilderProps : InsertAfter(k, props)
    \/ \E k \in DOMAIN collection : Remove(k)
    \/ \E k \in DOMAIN collection : Prune(k)

Spec == Init /\ [][Next]_vars

(***************************************************************************)
(* Queries alone: any kind, and filters on name, kind and arguments.       *)
(***************************************************************************)
AllKinds == {"Program", "Command", "Variable", "Conditional", "Loop", "Function",
             "Pipeline", "Redirect", "Subshell", "Comment"}

ArgumentsAre(elems) == <<[key |-> "arguments", value |-> FilterArray(elems)]>>

QueryFilters ==
    {   NoFilter,
        NameIs("npm"),
        NameIs("f"),
        <<[key |-> "kind", value |-> Str("while")]>>,
        ArgumentsAre(<<"install">>),
        ArgumentsAre(<<>>),
        ArgumentsAre(<<"run">>),
        ArgumentsAre(<<"build", "run">>),
        ArgumentsAre(<<"run", "build">>),
        NameIs("npm") \o ArgumentsAre(<<"test">>),
        NameIs("ls") \o ArgumentsAre(<<"test">>)  }

NextQuery ==
    \/ \E R \in Sources : B(R)
    \/ \E api \in DOMAIN asts, nodeType \in AllKinds, filter \in QueryFilters :
            Find(api, nodeType, filter)

SpecQuery == Init /\ [][NextQuery]_vars

(***************************************************************************)
(* Transforms that end in toSource: parse, find, edit nodes through the    *)
(* handles, generate.                                                      *)
(***************************************************************************)
GeneratorSources == {SrcIf, SrcNested, SrcNpm, SrcMisc}

GeneratorQueries ==
    {   [kind |-> "Command", filter |-> NameIs("npm")],
        [kind |-> "Loop", filter |-> NoFilter]  }

\* the nodes a transform builds and inserts
GeneratorBuilds ==
    {   [kind |-> "Loop", props |-> [kind |-> "until", condition |-> "c"]],
        [kind |-> "Loop", props |-> [kind |-> "while", condition |-> "c"]],
        [kind |-> "Conditional", props |-> [condition |-> "c"]],
        [kind |-> "Command", props |-> [name |-> "echo"]]  }

GeneratorOptions == { <<>>, [indent |-> 4], [lineEnding |-> "\r\n"] }

\* a built node as a heap cell: its child arrays by their elements
Stored(node) ==
    [f \in DOMAIN node |-> IF f \in ChildFields THEN node[f].elems ELSE node[f]]

\* the callback of the update-package-manager transform on one npm Command;
\* args.slice(1) and the array literal are new arrays
updatePackageManager(command, id) ==
    LET args == command.arguments.elems
    IN  IF Len(args) > 0
        THEN CASE args[1] = "install" ->
                    [command EXCEPT !.name = "yarn", !.arguments = Array(id, Tail(args))]
               [] args[1] = "uninstall" ->
                    [command EXCEPT !.name = "yarn",
                                    !.arguments = Array(id, <<"remove">> \o Tail(args))]
               [] OTHER -> [command EXCEPT !.name = "yarn"]
        ELSE [command EXCEPT !.name = "yarn"]

\* the forEach callback of update-package-manager on handle k of
\* ast.find('Command', { name: 'npm' })
NpmToYarn(k) ==
    /\ calls < MaxCalls
    /\ query.kind = "Command" /\ query.filter = NameIs("npm")
    /\ heap' = [heap EXCEPT ![collection[k].value] = updatePackageManager(@, nextId)]
    /\ nextId' = nextId + 1
    /\ log' = Logged("edit", k, Null)
    /\ calls' = calls + 1
    /\ UNCHANGED <<asts, rootAST, collection, query>>
    /\ UNCHANGED <<parses, genVars, runVars>>

\* collection[k].insertAfter(api[kind](props))
InsertAfterBuilt(k, kind, props) ==
    /\ calls < MaxCalls
    /\ LET made == nextId :> Stored(Build(kind, nextId, props)) @@ heap
       IN  heap' = insertAfterNode(made, rootAST, collection[k], nextId)
    /\ nextId' = nextId + 1
    /\ log' = Logged("insertAfter", k, nextId)
    /\ calls' = calls + 1
    /\ UNCHANGED <<asts, rootAST, collection, query>>
    /\ UNCHANGED <<parses, genVars, runVars>>

\* text = api.toSource(options)
ToSource(api, options) ==
    /\ calls < MaxCalls
    /\ source' = [api |-> api, options |-> options,
                  text |-> generateSource(heap, asts[api], options), heap |-> heap]
    /\ calls' = calls + 1
    /\ UNCHANGED <<heap, nextId, asts, rootAST, collection, query, log>>
    /\ UNCHANGED <<parses, builds, runVars>>

NextSource ==
    \/ \E R \in GeneratorSources : B(R)
    \/ \E api \in DOMAIN asts, q \in GeneratorQueries : Find(api, q.kind, q.filter)
    \/ \E k \in DOMAIN collection : NpmToYarn(k)
    \/ \E k \in DOMAIN collection, b \in GeneratorBuilds : InsertAfterBuilt(k, b.kind, b.props)
    \/ \E api \in DOMAIN asts, options \in GeneratorOptions : ToSource(api, options)

SpecSource == Init /\ [][NextSource]_vars

(***************************************************************************)
(* The example transforms: the callbacks of update-package-manager and of  *)
(* the logging step of complex-transform, on scripts with several matches. *)
(***************************************************************************)
\* npm install lodash; npm run build; npm run lint
SrcScripts ==
    <<  [type |-> "Script", body |-> Arr(<<2, 3, 4>>)],
        [type |-> "Command", name |-> "npm", args |-> <<"install", "lodash">>],
        [type |-> "Command", name |-> "npm", args |-> <<"run", "build">>],
        [type |-> "Command", name |-> "npm", args |-> <<"run", "lint">>]  >>

\* docker build; docker push; for x; do docker run; kubectl apply; done
SrcDeploy ==
    <<  [type |-> "Script", body |-> Arr(<<2, 3, 4>>)],
        [type |-> "Command", name |-> "docker", args |-> <<"build">>],
        [type |-> "Command", name |-> "docker", args |-> <<"push">>],
        [type |-> "For", variable |-> "x", body |-> Arr(<<5, 6>>)],
        [type |-> "Command", name |-> "docker", args |-> <<"run">>],
        [type |-> "Command", name |-> "kubectl", args |-> <<"apply">>]  >>

TransformSources == {SrcScripts, SrcDeploy}

importantCommands == <<"docker", "kubectl", "terraform", "aws">>

TransformQueries ==
    {[kind |-> "Command", filter |-> NameIs("npm")]} \cup
    {[kind |-> "Command", filter |-> NameIs(importantCommands[i])] :
        i \in DOMAIN importantCommands}

\* args.join(' ') as one string
RECURSIVE JoinString(_, _)
JoinString(parts, sep) ==
    IF parts = <<>> THEN ""
    ELSE IF Len(parts) = 1 THEN parts[1]
    ELSE parts[1] \o sep \o JoinString(Tail(parts), sep)

\* the props of the log command made for `command`
logCmd(cmdName, command, ref) ==
    [name |-> "echo",
     arguments |-> Array(ref, <<"[INFO] Running: " \o cmdName \o " " \o
                                    JoinString(command.arguments.elems, " ")>>)]

\* the forEach callback of the logging step of complex-transform on handle k
\* of ast.find('Command', { name: cmdName })
LogImportant(k) ==
    /\ calls < MaxCalls
    /\ query.kind = "Command"
    /\ \E i \in DOMAIN importantCommands : query.filter = NameIs(importantCommands[i])
    /\ LET cmdName == FilterGet(query.filter, "name").v
           props == logCmd(cmdName, heap[collection[k].value], nextId + 1)
           made == nextId :> Stored(Build("Command", nextId, props)) @@ heap
       IN  heap' = insertBeforeNode(made, rootAST, collection[k], nextId)
    /\ nextId' = nextId + 2
    /\ log' = Logged("insertBefore", k, nextId)
    /\ calls' = calls + 1
    /\ UNCHANGED <<asts, rootAST, collection, query>>
    /\ UNCHANGED <<parses, genVars, runVars>>

NextTransform ==
    \/ \E R \in TransformSources : B(R)
    \/ \E api \in DOMAIN asts, q \in TransformQueries : Find(api, q.kind, q.filter)
    \/ \E k \in DOMAIN collection : NpmToYarn(k)
    \/ \E k \in DOMAIN collection : LogImportant(k)
    \/ \E api \in DOMAIN asts : ToSource(api, <<>>)

SpecTransform == Init /\ [][NextTransform]_vars

(***************************************************************************)
(* Transforms that put a node back: the node handed to insertBefore or     *)
(* replace is the value of a handle of the same collection on which        *)
(* remove() was called before.                                             *)
(***************************************************************************)
\* remove() has been called through handle k since the find
RemoveCalled(k) == \E j \in DOMAIN log : log[j].op = "remove" /\ log[j].handle = k

\* collection[k].insertBefore(collection[k2].value)
MoveBefore(k, k2) ==
    /\ calls < MaxCalls
    /\ RemoveCalled(k2)
    /\ heap' = insertBeforeNode(heap, rootAST, collection[k], collection[k2].value)
    /\ log' = Logged("insertBefore", k, collection[k2].value)
    /\ calls' = calls + 1
    /\ UNCHANGED <<nextId, asts, rootAST, collection, query>>
    /\ UNCHANGED <<parses, genVars, runVars>>

\* collection[k].replace(collection[k2].value)
ReplaceBy(k, k2) ==
    /\ calls < MaxCalls
    /\ RemoveCalled(k2)
    /\ heap' = replaceNode(heap, rootAST, collection[k], collection[k2].value)
    /\ log' = Logged("replace", k, collection[k2].value)
    /\ calls' = calls + 1
    /\ UNCHANGED <<nextId, asts, rootAST, collection, query>>
    /\ UNCHANGED <<parses, genVars, runVars>>

\* walkAST returns: no node is below itself along body sequences (on a
\* structure with such a cycle it recurses until the stack overflows)
walkASTReturns(h, node) ==
    \A n \in ReachVia(h, {"body"}, {node}, {}) :
        HasBody(h, n) => n \notin ReachVia(h, {"body"}, Range(h[n].body) \ {Null}, {})

\* api.find(nodeType, filter) when it returns
FindReturns(api, nodeType, filter) ==
    /\ walkASTReturns(heap, asts[api])
    /\ Find(api, nodeType, filter)

NextMove ==
    \/ \E R \in Sources : B(R)
    \/ \E api \in DOMAIN asts, q \in Queries : FindReturns(api, q.kind, q.filter)
    \/ \E k \in DOMAIN collection : Remove(k)
    \/ \E k \in DOMAIN collection, props \in BuilderProps : InsertBefore(k, props)
    \/ \E k, k2 \in DOMAIN collection : MoveBefore(k, k2)
    \/ \E k, k2 \in DOMAIN collection : ReplaceBy(k, k2)

SpecMove == Init /\ [][NextMove]_vars

(***************************************************************************)
(* The normalizer alone: b() on what the parser may return or raise.       *)
(***************************************************************************)
\* { a; b; }; c   with the group as a CompoundList wrapper around a and b
SrcWrapped ==
    <<  [type |-> "Script", body |-> Arr(<<2, 5>>)],
        [type |-> "CompoundList", body |-> Arr(<<3, 4>>)],
        [type |-> "Command", name |-> "a", args |-> <<>>],
        [type |-> "Command", name |-> "b", args |-> <<>>],
        [type |-> "Command", name |-> "c", args |-> <<>>]  >>

\* { a; }; b   with the group's body as the one node it holds
SrcGroup ==
    <<  [type |-> "Script", body |-> Arr(<<2, 4>>)],
        [type |-> "Group", body |-> Obj(3)],
        [type |-> "Command", name |-> "a", args |-> <<>>],
        [type |-> "Command", name |-> "b", args |-> <<>>]  >>

\* npm install && npm test
SrcLogical ==
    <<  [type |-> "Script", body |-> Arr(<<2>>)],
        [type |-> "LogicalExpression", op |-> "and", left |-> Obj(3), right |-> Obj(4)],
        [type |-> "Command", name |-> "npm", args |-> <<"install">>],
        [type |-> "Command", name |-> "npm", args |-> <<"test">>]  >>

\* the empty script
SrcEmpty == <<[type |-> "Script", body |-> Arr(<<>>)]>>

ParserTrees == {SrcIf, SrcNested, SrcNpm, SrcMisc, SrcWrapped, SrcGroup, SrcLogical, SrcEmpty}

\* the messages of the errors the parser raises
ParserMessages == {"Unexpected token", "Unclosed quote"}

\* an error that does not say what the parser reported
parseError_generic(message) == <<"Failed to parse bash source">>

\* new Error(`Failed to parse bash source: ${error.message}`), as a text
parseError(message) == <<"Failed to parse bash source: ", message>>

\* transformer.b(source) when parseBash raises: parse raises in its turn,
\* before b has assigned rootAST or made an API
BRaises(message) ==
    /\ calls < MaxCalls
    /\ parses' = Append(parses, [raw |-> <<>>, threw |-> TRUE, raised |-> message,
                                 message |-> parseError(message), ast |-> Null])
    /\ calls' = calls + 1
    /\ UNCHANGED <<heap, nextId, asts, rootAST, collection, query, log>>
    /\ UNCHANGED <<genVars, runVars>>

NextParse ==
    \/ \E R \in ParserTrees : B(R)
    \/ \E message \in ParserMessages : BRaises(message)

SpecParse == Init /\ [][NextParse]_vars

(***************************************************************************)
(* Runner: run(transformPath, filePaths, options) on one Runner.  A run is *)
(* followed file by file: processFile is awaited for one path at a time.   *)
(***************************************************************************)
MaxRuns == 2        \* run() calls on the one Runner

\* what require(transformPath) gives: a function, an object with a callable
\* default or transform export, an object with neither, or no module at all
Modules == {"function", "default", "transform", "object", "missing"}

\* a loader that hands back whatever the module exports
loadTransform_lenient(module) ==
    IF module = "missing" THEN [threw |-> TRUE] ELSE [threw |-> FALSE]

loadTransform(module) ==
    IF module \in {"function", "default", "transform"}
    THEN [threw |-> FALSE]
    ELSE [threw |-> TRUE]      \* Failed to load transform: ...

\* this.glob(pattern, options): the matching files, or a raised error
glob(pattern) ==
    CASE pattern = "*.sh" -> [threw |-> FALSE, files |-> <<"a.sh", "b.sh", "c.sh">>]
      [] pattern = "b*"   -> [threw |-> FALSE, files |-> <<"b.sh">>]
      [] pattern = "a.sh" -> [threw |-> FALSE, files |-> <<"a.sh">>]
      [] pattern = "none" -> [threw |-> FALSE, files |-> <<>>]
      [] pattern = "["    -> [threw |-> TRUE, files |-> <<>>]

\* [...new Set(paths)]: the first occurrence of every path, in order
RECURSIVE Distinct(_)
Distinct(paths) ==
    IF paths = <<>> THEN <<>>
    ELSE LET front == Distinct(SubSeq(paths, 1, Len(paths) - 1))
             last == paths[Len(paths)]
         IN  IF last \in Range(front) THEN front ELSE Append(front, last)

\* resolvePaths returning resolvedPaths as collected, duplicates included
resolvePaths_collected(patterns) ==
    Flatten([k \in DOMAIN patterns |->
                IF glob(patterns[k]).threw THEN <<>> ELSE glob(patterns[k]).files])

\* a pattern that fails to resolve is warned about and skipped
resolvePaths(patterns) ==
    Distinct(Flatten([k \in DOMAIN patterns |->
                        IF glob(patterns[k]).threw THEN <<>> ELSE glob(patterns[k]).files]))

\* what happens to one file: the read fails; the transform raises (a parse
\* failure in b() included); it returns the source unchanged; it returns a
\* new text; it returns a new text and the write fails
Outcomes == {"readError", "transformThrows", "same", "changed", "writeError"}

Failures == {"readError", "transformThrows", "writeError"}

\* the outcomes in which the transform returned: result !== source
Differing == {"changed", "writeError"}

\* processFile without its try/catch: the error goes on to run()
processFile_noCatch(st, dry, outcome) ==
    LET counted == [st EXCEPT !.processed = @ + 1]
    IN  CASE outcome \in {"readError", "transformThrows"} ->
                [stats |-> counted, written |-> FALSE, raised |-> TRUE]
          [] outcome = "same" ->
                [stats |-> counted, written |-> FALSE, raised |-> FALSE]
          [] outcome = "changed" ->
                [stats |-> [counted EXCEPT !.changed = @ + 1], written |-> ~dry,
                 raised |-> FALSE]
          [] outcome = "writeError" ->
                [stats |-> [counted EXCEPT !.changed = @ + 1], written |-> FALSE,
                 raised |-> TRUE]

\* a processFile that counts a file as changed once it has been written
processFile_countsWritten(st, dry, outcome) ==
    LET counted == [st EXCEPT !.processed = @ + 1]
    IN  CASE outcome \in {"readError", "transformThrows", "writeError"} ->
                [stats |-> [counted EXCEPT !.errors = @ + 1], written |-> FALSE,
                 raised |-> FALSE]
          [] outcome = "same" ->
                [stats |-> counted, written |-> FALSE, raised |-> FALSE]
          [] outcome = "changed" ->
                [stats |-> [counted EXCEPT !.changed = @ + 1], written |-> ~dry,
                 raised |-> FALSE]

\* a processFile that takes no notice of options.dry
processFile_ignoresDry(st, dry, outcome) ==
    LET counted == [st EXCEPT !.processed = @ + 1]
    IN  CASE outcome \in {"readError", "transformThrows"} ->
                [stats |-> [counted EXCEPT !.errors = @ + 1], written |-> FALSE,
                 raised |-> FALSE]
          [] outcome = "same" ->
                [stats |-> counted, written |-> FALSE, raised |-> FALSE]
          [] outcome = "changed" ->
                [stats |-> [counted EXCEPT !.changed = @ + 1], written |-> TRUE,
                 raised |-> FALSE]
          [] outcome = "writeError" ->
                [stats |-> [counted EXCEPT !.changed = @ + 1, !.errors = @ + 1],
                 written |-> FALSE, raised |-> FALSE]

\* processFile: the stats after it, whether it wrote the file, and whether
\* it raised to its caller (it catches everything)
processFile(st, dry, outcome) ==
    LET counted == [st EXCEPT !.processed = @ + 1]
    IN  CASE outcome \in {"readError", "transformThrows"} ->
                [stats |-> [counted EXCEPT !.errors = @ + 1], written |-> FALSE,
                 raised |-> FALSE]
          [] outcome = "same" ->
                [stats |-> counted, written |-> FALSE, raised |-> FALSE]
          [] outcome = "changed" ->
                [stats |-> [counted EXCEPT !.changed = @ + 1], written |-> ~dry,
                 raised |-> FALSE]
          [] outcome = "writeError" ->
                [stats |-> [counted EXCEPT !.changed = @ + 1, !.errors = @ + 1],
                 written |-> FALSE, raised |-> FALSE]

\* the arguments of the run() calls
RunInputs ==
    {   [module |-> "function", patterns |-> <<"*.sh">>, dry |-> FALSE],
        [module |-> "default", patterns |-> <<"b*", "*.sh">>, dry |-> TRUE],
        [module |-> "transform", patterns |-> <<"[", "a.sh">>, dry |-> FALSE],
        [module |-> "function", patterns |-> <<"none">>, dry |-> FALSE],
        [module |-> "object", patterns |-> <<"*.sh">>, dry |-> FALSE],
        [module |-> "missing", patterns |-> <<"a.sh", "b*">>, dry |-> TRUE]  }

\* runner.run(transformPath, filePaths, options) up to its first file
Run(module, patterns, dry) ==
    /\ run.pc \in {"idle", "returned"}
    /\ run.n < MaxRuns
    /\ LET started == [pc |-> "files", n |-> run.n + 1, module |-> module,
                       patterns |-> patterns, dry |-> dry, paths |-> <<>>, next |-> 1,
                       failed |-> {}, differ |-> {}, before |-> stats,
                       diskBefore |-> disk]
       IN  IF loadTransform(module).threw
           THEN /\ stats' = [stats EXCEPT !.errors = @ + 1]
                /\ run' = [started EXCEPT !.pc = "returned"]
           ELSE /\ stats' = stats
                /\ run' = IF resolvePaths(patterns) = <<>>
                          THEN [started EXCEPT !.pc = "returned"]
                          ELSE [started EXCEPT !.paths = resolvePaths(patterns)]
    /\ UNCHANGED <<heap, nextId, asts, rootAST, collection, query, log, calls>>
    /\ UNCHANGED <<parses, genVars, disk>>

\* await this.processFile(filePath, transformFn, options) for the next path
ProcessFile(outcome) ==
    /\ run.pc = "files"
    /\ run.next <= Len(run.paths)
    /\ outcome = "writeError" => ~run.dry
    /\ LET r == processFile(stats, run.dry, outcome)
           file == run.paths[run.next]
       IN  IF r.raised
           THEN /\ stats' = [r.stats EXCEPT !.errors = @ + 1]
                /\ run' = [run EXCEPT !.pc = "returned"]
                /\ disk' = disk
           ELSE /\ stats' = r.stats
                /\ run' = [run EXCEPT !.next = @ + 1,
                                      !.failed = IF outcome \in Failures
                                                 THEN @ \cup {run.next} ELSE @,
                                      !.differ = IF outcome \in Differing
                                                 THEN @ \cup {run.next} ELSE @]
                /\ disk' = IF r.written THEN [disk EXCEPT ![file] = "new"] ELSE disk
    /\ UNCHANGED <<heap, nextId, asts, rootAST, collection, query, log, calls>>
    /\ UNCHANGED <<parses, genVars>>

\* after the last file: printSummary and return this.stats
Return ==
    /\ run.pc = "files"
    /\ run.next > Len(run.paths)
    /\ run' = [run EXCEPT !.pc = "returned"]
    /\ UNCHANGED <<heap, nextId, asts, rootAST, collection, query, log, calls>>
    /\ UNCHANGED <<parses, genVars, stats, disk>>

NextRun ==
    \/ \E i \in RunInputs : Run(i.module, i.patterns, i.dry)
    \/ \E outcome \in Outcomes : ProcessFile(outcome)
    \/ Return

SpecRun == Init /\ [][NextRun]_vars

(***************************************************************************)
(* The node builders alone: every builder, called with partial field       *)
(* records of its node type.                                               *)
(***************************************************************************)
MaxBuilds == 2      \* builder calls

\* an array the caller made and passes in props
CallerArray(n, elems) == Array(100 + n, elems)

PropsOf(kind) ==
    CASE kind = "Command" ->
            {   <<>>,
                [name |-> "echo"],
                [arguments |-> CallerArray(1, <<"hi">>)],
                [name |-> "echo", arguments |-> CallerArray(1, <<"hi">>)],
                [type |-> "Command", name |-> "ls"],
                [redirects |-> CallerArray(2, <<>>)]  }
      [] kind = "Variable" ->
            {   <<>>,
                [name |-> "A"],
                [value |-> "1"],
                [name |-> "A", value |-> "1", export |-> TRUE]  }
      [] kind = "Conditional" ->
            {   <<>>,
                [condition |-> "c"],
                [consequent |-> CallerArray(1, <<>>)],
                [condition |-> "c", alternate |-> CallerArray(2, <<>>)]  }
      [] kind = "Loop" ->
            {   <<>>,
                [kind |-> "while", condition |-> "c"],
                [kind |-> "until"],
                [variable |-> "x"],
                [body |-> CallerArray(1, <<>>)]  }
      [] kind = "Function" ->
            {   <<>>,
                [name |-> "f"],
                [body |-> CallerArray(1, <<>>)]  }
      [] kind = "Pipeline" ->
            {   <<>>,
                [negated |-> TRUE],
                [commands |-> CallerArray(1, <<>>)]  }
      [] kind = "Redirect" ->
            {   <<>>,
                [operator |-> ">"],
                [target |-> "out"],
                [operator |-> ">", target |-> "out", fd |-> 2]  }
      [] kind = "Subshell" ->
            {   <<>>,
                [body |-> CallerArray(1, <<>>)]  }
      [] kind = "Comment" ->
            {   <<>>,
                [value |-> "hi"],
                [kind |-> "block"],
                [value |-> "hi", kind |-> "block"]  }

\* node = api[kind](props)
Builder(kind, props) ==
    /\ Len(builds) < MaxBuilds
    /\ builds' = Append(builds, [kind |-> kind, props |-> props,
                                 node |-> Build(kind, nextId, props)])
    /\ nextId' = nextId + 1
    /\ UNCHANGED <<heap, asts, rootAST, collection, query, log, calls>>
    /\ UNCHANGED <<parses, source, runVars>>

NextBuild == \E kind \in BuilderKinds : \E props \in PropsOf(kind) : Builder(kind, props)

SpecBuild == Init /\ [][NextBuild]_vars

(***************************************************************************)
(* Vocabulary of the properties.                                           *)
(***************************************************************************)
\* `collection` is what the latest find returned and no mutator ran since
FreshResult == query.api # 0 /\ log = <<>>

Values(coll) == { coll[k].value : k \in DOMAIN coll }

IndexPath(path) == [k \in DOMAIN path |-> path[k].index]

\* position p comes before position q in document order: p is a proper
\* prefix of q (an ancestor), or p branches off to an earlier sibling
RECURSIVE Before(_, _)
Before(p, q) ==
    IF p = <<>> THEN q # <<>>
    ELSE IF q = <<>> THEN FALSE
    ELSE \/ Head(p) < Head(q)
         \/ Head(p) = Head(q) /\ Before(Tail(p), Tail(q))

Reachable(h, root) == ReachVia(h, ChildFields, {root}, {})

\* C1: find(K, {}) returns only nodes of kind K, each reachable from the root
\* through child-sequence fields, each once, each at the position its path
\* names, and in document order: a parent before its descendants and an
\* earlier sibling's whole subtree before a later sibling.
C1_FindPreOrder ==
    (FreshResult /\ query.filter = NoFilter) =>
        LET root == asts[query.api]
            reach == Reachable(heap, root)
        IN  /\ \A k \in DOMAIN collection :
                /\ heap[collection[k].value].type = query.kind
                /\ collection[k].value \in reach
                /\ getNodeAtPath(heap, root, collection[k].path) = collection[k].value
            /\ \A j, k \in DOMAIN collection : j < k =>
                /\ collection[j].value # collection[k].value
                /\ Before(IndexPath(collection[j].path), IndexPath(collection[k].path))

\* a find result with a parent, its descendant and a later sibling's subtree
C1_Witness ==
    /\ FreshResult /\ query.filter = NoFilter
    /\ \E i, j, k \in DOMAIN collection :
        /\ i < j /\ j < k
        /\ Len(collection[i].path) < Len(collection[j].path)
        /\ Len(collection[k].path) < Len(collection[j].path)

\* C2: find(K, {}) returns every node of kind K that is reachable through
\* body, consequent, alternate, commands or redirects, and no other node.
C2_FindFollowsEveryChildField ==
    (FreshResult /\ query.filter = NoFilter) =>
        Values(collection) =
            { n \in Reachable(heap, asts[query.api]) : heap[n].type = query.kind }

\* what the filter asks of a node: every key exactly equal, `arguments`
\* equal element by element
Asked(node, filter) ==
    \A k \in DOMAIN filter :
        LET key == filter[k].key
            want == filter[k].value
        IN  /\ key \in DOMAIN node
            /\ IF key = "arguments"
               THEN /\ Len(node.arguments.elems) = Len(want.elems)
                    /\ \A i \in DOMAIN want.elems : node.arguments.elems[i] = want.elems[i]
               ELSE node[key] = want.v

HandleOf(e) == collection[e.handle]

\* the heap right after the j-th logged call
After(j) == IF j < Len(log) THEN log[j + 1].pre ELSE heap

\* every object of `pre` outside `ids` is as it was
SameExcept(pre, post, ids) == \A id \in DOMAIN pre \ ids : post[id] = pre[id]

\* the parent a call's path resolves to from the root of the call (Null: none)
ResolvedParent(e) ==
    IF HandleOf(e).path = <<>> THEN Null
    ELSE LET parent == getNodeAtPath(e.pre, e.root, Init1(HandleOf(e).path))
         IN  IF parent # Null /\ "body" \in DOMAIN e.pre[parent] THEN parent ELSE Null

\* C4: replace(N) puts N at the position the path resolves to, overwriting
\* the element there, and changes nothing else (nothing at all when the path
\* resolves to no parent sequence); replace(N1) then replace(N2) on the same
\* handle leaves N2 at that position and N1 nowhere in that sequence.
C4_ReplaceOverwrites ==
    /\ \A j \in DOMAIN log : log[j].op = "replace" =>
        LET e == log[j]
            parent == ResolvedParent(e)
            i == LastIndex(HandleOf(e))
        IN  IF parent = Null THEN SameExcept(e.pre, After(j), {})
            ELSE LET old == e.pre[parent].body
                     new == After(j)[parent].body
                 IN  /\ new[i + 1] = e.newNode
                     /\ \A k \in DOMAIN old \ {i + 1} : new[k] = old[k]
                     /\ i < Len(old) => Len(new) = Len(old)
                     /\ [After(j)[parent] EXCEPT !.body = old] = e.pre[parent]
                     /\ SameExcept(e.pre, After(j), {parent})
    /\ \A j \in DOMAIN log :
        (/\ j + 1 \in DOMAIN log
         /\ log[j].op = "replace" /\ log[j + 1].op = "replace"
         /\ log[j].handle = log[j + 1].handle
         /\ ResolvedParent(log[j + 1]) # Null) =>
            LET S == After(j + 1)[ResolvedParent(log[j + 1])].body
            IN  /\ S[LastIndex(HandleOf(log[j + 1])) + 1] = log[j + 1].newNode
                /\ log[j].newNode \notin Range(S)

\* two replaces in a row through one handle whose path resolves
C4_Witness ==
    /\ Len(log) = 2
    /\ log[1].op = "replace" /\ log[2].op = "replace"
    /\ log[1].handle = log[2].handle
    /\ ResolvedParent(log[1]) # Null /\ ResolvedParent(log[2]) # Null
    /\ LastIndex(HandleOf(log[1])) < Len(log[1].pre[ResolvedParent(log[1])].body)
    /\ log[1].newNode # log[2].newNode

\* the sequence a handle was captured in: the body of the step before the last
CapturedParent(path) ==
    IF Len(path.path) = 1 THEN asts[query.api]
    ELSE path.path[Len(path.path) - 1].node

\* the first call since the find was an insert through a non-root handle
FreshInsert ==
    /\ Len(log) = 1
    /\ log[1].op \in {"insertBefore", "insertAfter"}
    /\ HandleOf(log[1]).path # <<>>

\* after the insert: X and the original node side by side at the captured
\* index, the sequence one longer, the other elements in their old order
InsertedAtCapturedIndex ==
    LET e == log[1]
        path == HandleOf(e)
        i == LastIndex(path)
        old == e.pre[CapturedParent(path)].body
        new == heap[CapturedParent(path)].body
        IsOld(x) == x # e.newNode
    IN  /\ Len(new) = Len(old) + 1
        /\ SelectSeq(new, IsOld) = old
        /\ e.op = "insertBefore" => new[i + 1] = e.newNode /\ new[i + 2] = path.value
        /\ e.op = "insertAfter" => new[i + 1] = path.value /\ new[i + 2] = e.newNode

\* C5: on a freshly found handle with captured index i in parent sequence
\* S, insertBefore(X) puts X at i and the original node at i+1, insertAfter(X)
\* leaves the original at i and puts X at i+1; S grows by exactly one.
C5_InsertAtCapturedIndex == FreshInsert => InsertedAtCapturedIndex

\* the same, for handles found on the tree Transformer.rootAST points to
C5_OnCurrentTree ==
    (FreshInsert /\ log[1].root = asts[query.api]) => InsertedAtCapturedIndex

Subtree(h, n) == ReachVia(h, ChildFields, {n}, {})

\* the first call since the find was remove()
FreshRemove == Len(log) = 1 /\ log[1].op = "remove"

\* a new find of the same kind and filter on the same API no longer returns
\* the handle's node and still returns the matches outside its subtree
GoneFromNewFind ==
    LET e == log[1]
        again == findNodes(heap, asts[query.api], query.kind, query.filter)
    IN  /\ HandleOf(e).value \notin Values(again)
        /\ \A g \in Values(collection) :
                g \notin Subtree(e.pre, HandleOf(e).value) => g \in Values(again)

\* C6 as stated, for a find on the tree Transformer.rootAST points to: after
\* remove() on any freshly found handle, a new find of the same kind and
\* filter does not return its node and returns every other earlier match
\* outside the node's subtree.
C6_RemovedNotFoundAgain ==
    (FreshRemove /\ log[1].root = asts[query.api]) => GoneFromNewFind

\* C6 amended: the same for a handle with a non-empty path (not the Program
\* root) found on the tree Transformer.rootAST points to.
C6_RemovedNonRootNotFoundAgain ==
    (/\ FreshRemove
     /\ HandleOf(log[1]).path # <<>>
     /\ log[1].root = asts[query.api]) => GoneFromNewFind

\* a loop removed together with the loop nested in it, another match kept
C6_Witness ==
    /\ FreshRemove
    /\ HandleOf(log[1]).path # <<>>
    /\ log[1].root = asts[query.api]
    /\ \E g \in Values(collection) :
        /\ g # HandleOf(log[1]).value
        /\ g \in Subtree(log[1].pre, HandleOf(log[1]).value)
    /\ heap # log[1].pre

\* a command removed from between its siblings, the other matches kept
C6_WitnessSiblings ==
    /\ FreshRemove
    /\ HandleOf(log[1]).path # <<>>
    /\ log[1].root = asts[query.api]
    /\ Len(findNodes(heap, asts[query.api], query.kind, query.filter)) >= 2

\* C7: through a handle with an empty path (the Program root) replace,
\* insertBefore, insertAfter, remove and prune leave every object unchanged.
C7_RootNoOp ==
    \A j \in DOMAIN log :
        HandleOf(log[j]).path = <<>> => SameExcept(log[j].pre, After(j), {})

\* a structural call and another call made through the root handle
C7_Witness ==
    /\ Len(log) = 2
    /\ HandleOf(log[1]).path = <<>>
    /\ log[1].op = "remove" /\ log[2].op = "insertBefore"
    /\ heap[asts[query.api]].body # <<>>

Structural == {"insertBefore", "insertAfter", "remove", "prune"}

\* every logged call was made while rootAST was the tree the find walked
PassOnCurrentTree(j) == \A i \in 1..j : log[i].root = asts[query.api]

\* the call's path still arrives at the node the handle was captured for
ActsOnCaptured(e) ==
    HandleOf(e).path # <<>> =>
        getNodeAtPath(e.pre, e.root, HandleOf(e).path) = HandleOf(e).value

\* no two structural calls of the pass in one parent sequence, whether the
\* sequence is told by the captured parent or by the parent actually edited
OnePerParent ==
    \A i, j \in DOMAIN log :
        (i < j /\ log[i].op \in Structural /\ log[j].op \in Structural) =>
            /\ HandleOf(log[i]).path # <<>> /\ HandleOf(log[j]).path # <<>>
            /\ CapturedParent(HandleOf(log[i])) # CapturedParent(HandleOf(log[j]))
            /\ ResolvedParent(log[i]) # ResolvedParent(log[j])

\* C9 as stated, for a pass of structural calls on the current tree: with at
\* most one structural mutation per parent child sequence, every call acts on
\* the node its handle was captured for, nested handles included.
C9_OnePerParentIsSafe ==
    (/\ PassOnCurrentTree(Len(log))
     /\ \A j \in DOMAIN log : log[j].op \in Structural
     /\ OnePerParent) =>
        \A j \in DOMAIN log : ActsOnCaptured(log[j])

\* the sequence that holds step s of a captured path
Container(path, s) == IF s = 1 THEN asts[query.api] ELSE path[s - 1].node

\* the i-th call edited no sequence on the path of the j-th call at or before
\* the path's index (an insertAfter at the index itself edits after it)
LeavesPathAlone(i, j) ==
    LET parent == ResolvedParent(log[i])
        x == LastIndex(HandleOf(log[i]))
        path == HandleOf(log[j]).path
    IN  \/ parent = Null
        \/ \A s \in DOMAIN path : Container(path, s) = parent =>
              IF log[i].op = "insertAfter" THEN x >= path[s].index
              ELSE x > path[s].index

\* C9 amended: in a pass on the current tree, a call acts on the node its
\* handle was captured for when every earlier call of the pass left alone the
\* sequences on the handle's path up to the path's index.
C9_UntouchedPathIsSafe ==
    \A j \in DOMAIN log :
        (/\ PassOnCurrentTree(j)
         /\ \A i \in 1..(j - 1) : LeavesPathAlone(i, j)) =>
            ActsOnCaptured(log[j])

\* a second call whose path runs through a sequence the first call edited,
\* behind the path's index
C9_Witness ==
    /\ Len(log) = 2
    /\ PassOnCurrentTree(2)
    /\ log[1].op \in Structural
    /\ log[1].handle # log[2].handle
    /\ ResolvedParent(log[1]) # Null
    /\ \E s \in DOMAIN HandleOf(log[2]).path :
            Container(HandleOf(log[2]).path, s) = ResolvedParent(log[1])
    /\ LeavesPathAlone(1, 2)
    /\ log[2].pre # log[1].pre

\* C10: a call made through a handle of one API never changes the tree of
\* another b() call on the same Transformer.
C10_OtherTreesUntouched ==
    \A j \in DOMAIN log : \A a \in DOMAIN asts :
        (a # query.api /\ asts[a] \in DOMAIN log[j].pre) =>
            \A id \in Reachable(log[j].pre, asts[a]) : After(j)[id] = log[j].pre[id]

(***************************************************************************)
(* Node builders.                                                          *)
(***************************************************************************)
\* the fields that hold arrays
ArrayFields == {"arguments", "body", "consequent", "alternate", "commands",
                "redirects", "parameters"}

\* the defaults of a kind as the specification lists them: the text fields
\* with their default text, and the fields that default to an empty sequence
DefaultText(kind) ==
    CASE kind = "Command"     -> [name |-> ""]
      [] kind = "Variable"    -> [name |-> "", value |-> ""]
      [] kind = "Conditional" -> [condition |-> ""]
      [] kind = "Loop"        -> [kind |-> "for"]
      [] kind = "Function"    -> [name |-> ""]
      [] kind = "Pipeline"    -> <<>>
      [] kind = "Redirect"    -> [operator |-> "", target |-> ""]
      [] kind = "Subshell"    -> <<>>
      [] kind = "Comment"     -> [value |-> "", kind |-> "line"]

DefaultEmpty(kind) ==
    CASE kind = "Command"     -> {"arguments"}
      [] kind = "Conditional" -> {"consequent"}
      [] kind \in {"Loop", "Function", "Subshell"} -> {"body"}
      [] kind = "Pipeline"    -> {"commands"}
      [] OTHER                -> {}

\* the array fields of a built node that the builder filled with a default
Defaulted(e) == DefaultEmpty(e.kind) \ DOMAIN e.props

\* C11: a builder returns a node of its own kind, with the supplied fields
\* as supplied and every other field of the kind at its default (empty name,
\* empty arguments, empty body/consequent/commands, Loop kind for, Comment
\* kind line) and no further field; a default sequence is a new array at
\* every call: no other built node holds it in any field.
C11_BuilderDefaults ==
    \A i \in DOMAIN builds :
        LET e == builds[i]
        IN  /\ e.node.type = e.kind
            /\ DOMAIN e.node = {"type"} \cup DOMAIN e.props
                                 \cup DOMAIN DefaultText(e.kind) \cup DefaultEmpty(e.kind)
            /\ \A f \in DOMAIN e.props : e.node[f] = e.props[f]
            /\ \A f \in DOMAIN DefaultText(e.kind) \ DOMAIN e.props :
                    e.node[f] = DefaultText(e.kind)[f]
            /\ \A f \in Defaulted(e) :
                    /\ e.node[f].elems = <<>>
                    /\ \A j \in DOMAIN builds \ {i} :
                        \A g \in ArrayFields \cap DOMAIN builds[j].node :
                            builds[j].node[g].ref # e.node[f].ref

\* two Loop builds, one with all defaults and one with its kind supplied, and
\* two nodes that each got a default body
C11_Witness ==
    \E i, j \in DOMAIN builds :
        /\ i # j
        /\ builds[i].kind = "Loop" /\ builds[i].props = <<>>
        /\ builds[j].kind = "Loop" /\ "kind" \in DOMAIN builds[j].props
        /\ builds[j].node.kind = "until"
        /\ "body" \in Defaulted(builds[i]) \cap Defaulted(builds[j])

(***************************************************************************)
(* Source generation.                                                      *)
(***************************************************************************)
\* toSource has returned `source.text` for the tree of source.api
Generated == source.api # 0

GeneratedRoot == asts[source.api]

\* the raw tree the parser returned for the b() call of an API
RawOf(api) == (CHOOSE p \in Range(parses) : p.ast = asts[api]).raw

\* the nodes whose text is part of the text of `root`
Rendered(h, root) == Reachable(h, root)

\* a Command's text as specified: the name, every argument after one space,
\* every rendered redirect after one space
CommandAsSpecified(h, c, options) ==
    Text(h[c].name)
    \o Flatten([k \in DOMAIN h[c].arguments.elems |-> <<" ", h[c].arguments.elems[k]>>])
    \o (IF "redirects" \in DOMAIN h[c]
        THEN Flatten([k \in DOMAIN h[c].redirects |->
                        <<" ">> \o astToSource(h, h[c].redirects[k], options)])
        ELSE <<>>)

\* C12: in a generated text every Command is written as its name, then one
\* space and the space-joined arguments if it has arguments, then one space
\* and the space-joined redirects if it has redirects; a program of one
\* Command without arguments and redirects is generated as exactly its name.
C12_CommandText ==
    Generated =>
        LET h == source.heap
            body == h[GeneratedRoot].body
        IN  /\ \A c \in Rendered(h, GeneratedRoot) :
                    h[c].type = "Command" =>
                        astToSource(h, c, source.options) = CommandAsSpecified(h, c, source.options)
            /\ (\A k \in DOMAIN body : body[k] # Null /\ h[body[k]].type = "Command") =>
                    source.text = Join([k \in DOMAIN body |->
                                            CommandAsSpecified(h, body[k], source.options)],
                                       LineEnding(source.options))

\* `npm install` after the update-package-manager callback is generated as
\* `yarn`; and a text with a Command that has arguments and a redirect
C12_Witness ==
    /\ Generated
    /\ RawOf(source.api) = SrcNpm
    /\ source.text = <<"yarn">>

C12_WitnessRedirect ==
    /\ Generated
    /\ \E c \in Rendered(source.heap, GeneratedRoot) :
        /\ source.heap[c].type = "Command"
        /\ source.heap[c].arguments.elems # <<>>
        /\ "redirects" \in DOMAIN source.heap[c]

\* text.split(lineEnding)
RECURSIVE Lines(_, _)
Lines(text, lineEnding) ==
    IF \A i \in DOMAIN text : text[i] # lineEnding[1] THEN <<text>>
    ELSE LET i == CHOOSE j \in DOMAIN text :
                    text[j] = lineEnding[1] /\ \A l \in 1..(j - 1) : text[l] # lineEnding[1]
         IN  <<SubSeq(text, 1, i - 1)>> \o Lines(SubSeq(text, i + 1, Len(text)), lineEnding)

\* the number of spaces a line starts with
RECURSIVE LeadingSpaces(_)
LeadingSpaces(line) ==
    IF line # <<>> /\ Head(line) = " " THEN 1 + LeadingSpaces(Tail(line)) ELSE 0

\* the lines of the texts of the children in `seq`
ChildLines(h, seq, options) ==
    Flatten([k \in DOMAIN seq |->
                Lines(astToSource(h, seq[k], options), LineEnding(options))])

\* the blocks of a node: its sequences of children that are written one
\* after the other between the node's opening and closing lines
Blocks(node) ==
    IF node.type = "Conditional"
    THEN <<node.consequent>> \o (IF "alternate" \in DOMAIN node THEN <<node.alternate>> ELSE <<>>)
    ELSE <<node.body>>

IsBlockNode(node) ==
    \/ node.type \in {"Conditional", "Function"}
    \/ node.type = "Loop" /\ node.kind \in {"for", "while"}

\* a block node all of whose blocks hold at least one child and no empty slot
FullBlocks(node) ==
    /\ IsBlockNode(node)
    /\ \A b \in DOMAIN Blocks(node) :
            Blocks(node)[b] # <<>> /\ Null \notin Range(Blocks(node)[b])

\* In the text of block node n, block b starts after the opening line, the
\* lines of the earlier blocks and one `else` line per earlier block
BlockStart(h, n, b, options) ==
    LET before == [c \in 1..(b - 1) |-> Len(ChildLines(h, Blocks(h[n])[c], options)) + 1]
    IN  1 + Len(Flatten([c \in DOMAIN before |-> [x \in 1..before[c] |-> x]]))

\* the lines in the text of n that belong to the children of its block b
BlockLines(h, n, b, options) ==
    LET lines == Lines(astToSource(h, n, options), LineEnding(options))
        first == BlockStart(h, n, b, options)
        count == Len(ChildLines(h, Blocks(h[n])[b], options))
    IN  SubSeq(lines, first + 1, first + count)

\* C13: in the text generated for a Conditional, Loop or Function every line
\* that belongs to a child of its consequent, alternate or body starts with
\* the two-space indent, also the lines after the first of a child that is
\* written on several lines.
C13_ChildLinesIndented ==
    Generated =>
        \A n \in Rendered(source.heap, GeneratedRoot) :
            FullBlocks(source.heap[n]) =>
                \A b \in DOMAIN Blocks(source.heap[n]) :
                    LET lines == BlockLines(source.heap, n, b, source.options)
                    IN  \A l \in DOMAIN lines : LeadingSpaces(lines[l]) >= 2

\* the same for the children that are written on one line
C13_OneLineChildrenIndented ==
    Generated =>
        \A n \in Rendered(source.heap, GeneratedRoot) :
            (/\ FullBlocks(source.heap[n])
             /\ \A b \in DOMAIN Blocks(source.heap[n]) :
                    \A c \in Range(Blocks(source.heap[n])[b]) :
                        Len(Lines(astToSource(source.heap, c, source.options),
                                  LineEnding(source.options))) = 1) =>
                \A b \in DOMAIN Blocks(source.heap[n]) :
                    LET lines == BlockLines(source.heap, n, b, source.options)
                    IN  \A l \in DOMAIN lines : LeadingSpaces(lines[l]) >= 2

\* options.indent as the specification reads it: the number of spaces of
\* one indentation step, two when it is not set
IndentUnit(options) == IF "indent" \in DOMAIN options THEN options.indent ELSE 2

\* a child written on one line that does not itself start with a space
PlainLine(h, c, options) ==
    LET text == astToSource(h, c, options)
    IN  /\ text # <<>>
        /\ Head(text) # " "
        /\ Len(Lines(text, LineEnding(options))) = 1

\* C14: the indentation written before the children of a block is the
\* configured options.indent, and two spaces when none is configured
\* (stated for the children that are written on one line).
C14_IndentOption ==
    Generated =>
        \A n \in Rendered(source.heap, GeneratedRoot) :
            (/\ FullBlocks(source.heap[n])
             /\ \A b \in DOMAIN Blocks(source.heap[n]) :
                    \A c \in Range(Blocks(source.heap[n])[b]) :
                        PlainLine(source.heap, c, source.options)) =>
                \A b \in DOMAIN Blocks(source.heap[n]) :
                    LET lines == BlockLines(source.heap, n, b, source.options)
                    IN  \A l \in DOMAIN lines :
                            LeadingSpaces(lines[l]) = IndentUnit(source.options)

\* without options.indent the children written on one line get two spaces
C14_DefaultIndent ==
    (Generated /\ "indent" \notin DOMAIN source.options) => C14_IndentOption

\* C15: every node of one of the ten canonical kinds in a generated tree,
\* a Loop of kind until included, is written as a non-empty text.
C15_CanonicalKindsHaveText ==
    Generated =>
        \A n \in Rendered(source.heap, GeneratedRoot) :
            source.heap[n].type \in AllKinds =>
                astToSource(source.heap, n, source.options) # <<>>

\* every canonical node except the Loops of kind until has a text
C15_AllButUntil ==
    Generated =>
        \A n \in Rendered(source.heap, GeneratedRoot) :
            (/\ source.heap[n].type \in AllKinds
             /\ ~(source.heap[n].type = "Loop" /\ source.heap[n].kind = "until")) =>
                astToSource(source.heap, n, source.options) # <<>>

(***************************************************************************)
(* The normalizer.                                                         *)
(***************************************************************************)
\* the fields in which a raw node of a wrapper type holds its children
WrapperFields == <<"body", "left", "right">>

\* the children of raw node i, in document order
RawChildren(R, i) ==
    Flatten([f \in DOMAIN WrapperFields |->
                IF WrapperFields[f] \in DOMAIN R[i] THEN R[i][WrapperFields[f]].ids ELSE <<>>])

\* what raw node i contributes to the enclosing body as specified: its own
\* conversion when its type is known, else what its children contribute,
\* spliced at its position
RECURSIVE Spliced(_, _, _)
Spliced(R, i, base) ==
    IF R[i].type \in KnownTypes THEN <<base + i>>
    ELSE LET kids == RawChildren(R, i)
         IN  Flatten([k \in DOMAIN kids |-> Spliced(R, kids[k], base)])

\* the b() calls that returned an API
Parsed == { k \in DOMAIN parses : ~parses[k].threw }

\* C17: the Program body is, in document order, the conversions of the
\* known-type raw nodes, with the children of every unknown or wrapper node
\* spliced in at the node's position and none of them dropped.
C17_ProgramBodyIsSpliced ==
    \A k \in Parsed :
        LET p == parses[k]
        IN  /\ heap[p.ast].body = Spliced(p.raw, 1, p.ast)
            /\ \A c \in Range(heap[p.ast].body) : heap[c] = convert(p.raw, c - p.ast, p.ast)

\* the same for the raw trees whose wrapper nodes hold their children in an
\* array-valued body
ArrayBodies(R) ==
    \A i \in DOMAIN R :
        R[i].type \notin KnownTypes =>
            /\ DOMAIN R[i] \cap {"left", "right"} = {}
            /\ "body" \in DOMAIN R[i] => R[i].body.isArray

C17_ArrayBodiesAreSpliced ==
    \A k \in Parsed :
        ArrayBodies(parses[k].raw) =>
            heap[parses[k].ast].body = Spliced(parses[k].raw, 1, parses[k].ast)

\* C18: when the parser raises, b raises an error whose message carries the
\* parser's message, returns no API and no tree, and leaves the trees, the
\* heap and Transformer.rootAST as they were.
C18_ParseFailure ==
    [][ (Len(parses') = Len(parses) + 1 /\ parses'[Len(parses')].threw) =>
            LET p == parses'[Len(parses')]
            IN  /\ p.raised \in Range(p.message)
                /\ p.ast = Null
                /\ heap' = heap /\ asts' = asts /\ rootAST' = rootAST
                /\ nextId' = nextId ]_vars

\* a b() call that raised after one that returned a tree
C18_Witness ==
    /\ Len(parses) >= 2
    /\ ~parses[Len(parses) - 1].threw
    /\ parses[Len(parses)].threw
    /\ parses[Len(parses)].raised = "Unclosed quote"
    /\ rootAST = parses[Len(parses) - 1].ast

(***************************************************************************)
(* The Runner.                                                             *)
(***************************************************************************)
\* run() has returned
Returned == run.pc = "returned"

\* a transform that resolves to a callable
Callable(module) == module \in {"function", "default", "transform"}

\* the paths processFile has been called for in this run
Done == SubSeq(run.paths, 1, run.next - 1)

\* C19: a failure while one file is processed (read error, exception in the
\* transform, write error) is counted in errors and ends that file only:
\* when run returns, every resolved path has been processed, processed has
\* grown by their number and errors by the number of failed files.
C19_FailureEndsOneFile ==
    (Returned /\ Callable(run.module)) =>
        /\ Done = run.paths
        /\ stats.processed = run.before.processed + Len(run.paths)
        /\ stats.errors = run.before.errors + Cardinality(run.failed)

\* a run that returned after its first file failed and a later one was
\* written
C19_Witness ==
    /\ Returned
    /\ Len(run.paths) >= 2
    /\ 1 \in run.failed
    /\ Done = run.paths
    /\ \E k \in 2..Len(run.paths) :
            k \notin run.failed /\ disk[run.paths[k]] # run.diskBefore[run.paths[k]]

\* C20: when the transform does not resolve to a callable, run returns with
\* errors incremented once, processed and changed unchanged, no file
\* processed and no file written.
C20_LoadFailureEndsRun ==
    (Returned /\ ~Callable(run.module)) =>
        /\ stats = [run.before EXCEPT !.errors = @ + 1]
        /\ Done = <<>>
        /\ disk = run.diskBefore

\* a run that failed to load after a run that processed and wrote files
C20_Witness ==
    /\ Returned
    /\ run.module = "object"
    /\ run.before.processed > 0
    /\ \E f \in FileNames : disk[f] = "new"

\* the files of this run whose content on disk is no longer what it was
\* when the run started
Written == {f \in FileNames : disk[f] # run.diskBefore[f]}

\* the files of this run for which the transform returned a text other than
\* the source
Differ == {run.paths[k] : k \in run.differ}

\* C21: with the dry option a run writes no file and still counts every
\* file whose result differs from its source in changed; without dry only
\* files whose result differs from their source are written.
C21_DryWritesNothing ==
    /\ stats.changed = run.before.changed + Cardinality(run.differ)
    /\ run.dry => Written = {}
    /\ Written \subseteq Differ

\* a dry run that has counted two differing files, after a run without dry
\* that wrote one
C21_Witness ==
    /\ run.dry
    /\ Cardinality(run.differ) >= 2
    /\ stats.changed >= run.before.changed + 2
    /\ \E f \in FileNames : disk[f] = "new"

\* a run without dry that wrote a differing file and left an unchanged one
C21_WitnessWrite ==
    /\ ~run.dry
    /\ Returned
    /\ Written # {}
    /\ \E k \in 1..Len(run.paths) : k \notin run.differ /\ k \notin run.failed

(***************************************************************************)
(* The example transforms.                                                 *)
(***************************************************************************)
\* the j-th logged call is the update-package-manager callback on a Command
\* that was `npm <first> ...` when it was called
NpmCall(j, first) ==
    /\ log[j].op = "edit"
    /\ HandleOf(log[j]).value \in DOMAIN log[j].pre
    /\ LET was == log[j].pre[HandleOf(log[j]).value]
       IN  /\ was.name = "npm"
           /\ was.arguments.elems # <<>>
           /\ was.arguments.elems[1] = first

\* the j-th logged call left its Command as yarn with the first argument
\* dropped
YarnWithoutFirst(j) ==
    LET v == HandleOf(log[j]).value
    IN  /\ After(j)[v].name = "yarn"
        /\ After(j)[v].arguments.elems = Tail(log[j].pre[v].arguments.elems)

\* C22: update-package-manager rewrites every Command `npm run <script> ...`
\* to `yarn <script> ...` (as the fixture pair expects) and every
\* `npm install <args>` to `yarn <args>`.
C22_NpmToYarn ==
    \A j \in DOMAIN log :
        (NpmCall(j, "run") \/ NpmCall(j, "install")) => YarnWithoutFirst(j)

\* the half of C22 about `npm install <args>`
C22_InstallDropped ==
    \A j \in DOMAIN log : NpmCall(j, "install") => YarnWithoutFirst(j)

\* the logging step has run its forEach over the whole collection of one
\* find of an important command name on the current tree
LoggingPassDone ==
    /\ query.kind = "Command"
    /\ \E i \in DOMAIN importantCommands : query.filter = NameIs(importantCommands[i])
    /\ collection # <<>>
    /\ Len(log) = Len(collection)
    /\ \A j \in DOMAIN log : log[j].op = "insertBefore" /\ log[j].handle = j
    /\ PassOnCurrentTree(Len(log))

\* node `first` is immediately followed by node `second` in a child sequence
Precedes(h, first, second) ==
    \E p \in DOMAIN h : \E f \in ChildFields \cap DOMAIN h[p] :
        \E i \in 1..(Len(h[p][f]) - 1) : h[p][f][i] = first /\ h[p][f][i + 1] = second

\* C23: after the logging step, every matched Command is immediately
\* preceded in its parent's child sequence by the log command built for it,
\* for any number of matched commands.
C23_LogPrecedesCommand ==
    LoggingPassDone =>
        \A j \in DOMAIN log : Precedes(heap, log[j].newNode, collection[j].value)

\* C23 for a find that matched one command
C23_OneMatch ==
    (LoggingPassDone /\ Len(collection) = 1) =>
        Precedes(heap, log[1].newNode, collection[1].value)

(***************************************************************************)
(* Staleness.                                                              *)
(***************************************************************************)
\* logged call j inserted into or removed from a child sequence at index i,
\* and call j + 1 goes through a handle of the same parent with a later
\* index, which arrived at its value until call j
StaleAfter(j) ==
    /\ j + 1 \in DOMAIN log
    /\ log[j].op \in Structural
    /\ After(j) # log[j].pre
    /\ HandleOf(log[j]).path # <<>> /\ HandleOf(log[j + 1]).path # <<>>
    /\ Init1(IndexPath(HandleOf(log[j]).path)) = Init1(IndexPath(HandleOf(log[j + 1]).path))
    /\ LastIndex(HandleOf(log[j + 1])) > LastIndex(HandleOf(log[j]))
    /\ log[j + 1].root = log[j].root
    /\ getNodeAtPath(log[j].pre, log[j].root, HandleOf(log[j + 1]).path)
            = HandleOf(log[j + 1]).value

\* the element at 0-based position i of a sequence, Null past its end
ElementAt(seq, i) == IF i < Len(seq) THEN seq[i + 1] ELSE Null

\* what a mutator does at 0-based position i of a sequence
ActsAt(op, old, new, i, newNode) ==
    CASE op = "replace" ->
            /\ Len(new) >= i + 1 /\ new[i + 1] = newNode
            /\ \A k \in DOMAIN old : k # i + 1 => new[k] = old[k]
      [] op = "insertBefore" ->
            /\ Len(new) = Len(old) + 1
            /\ new[Min(i, Len(old)) + 1] = newNode
            /\ ElementAt(new, Min(i, Len(old)) + 1) = ElementAt(old, i)
      [] op = "insertAfter" ->
            /\ Len(new) = Len(old) + 1
            /\ new[Min(i + 1, Len(old)) + 1] = newNode
            /\ i < Len(old) => new[i + 1] = old[i + 1]
      [] op \in {"remove", "prune"} ->
            /\ Len(new) = IF i < Len(old) THEN Len(old) - 1 ELSE Len(old)
            /\ \A k \in DOMAIN new : new[k] = IF k <= i THEN old[k] ELSE old[k + 1]

\* C24: after an insert or remove at index i of a parent's child sequence,
\* a mutator invoked on a handle captured against the same parent with
\* index j > i acts at position j of the changed sequence, on another
\* element than the handle's value or past the end; the handle's value
\* stays where it is and the call completes.
C24_StaleHandleActsElsewhere ==
    \A j \in DOMAIN log : StaleAfter(j) =>
        LET e == log[j + 1]
            parent == ResolvedParent(e)
            at == LastIndex(HandleOf(e))
        IN  /\ parent # Null
            /\ ElementAt(e.pre[parent].body, at) # HandleOf(e).value
            /\ ActsAt(e.op, e.pre[parent].body, After(j + 1)[parent].body, at, e.newNode)
            /\ HandleOf(e).value \in Range(After(j + 1)[parent].body)

\* a remove through a stale handle took out the sibling after the handle's
\* value
C24_Witness ==
    /\ Len(log) >= 2
    /\ StaleAfter(Len(log) - 1)
    /\ log[Len(log)].op = "remove"
    /\ heap # log[Len(log)].pre

\* a replace through a stale handle wrote past the end of the sequence
C24_WitnessPastEnd ==
    /\ Len(log) >= 2
    /\ StaleAfter(Len(log) - 1)
    /\ log[Len(log)].op = "replace"
    /\ LastIndex(HandleOf(log[Len(log)]))
            >= Len(log[Len(log)].pre[ResolvedParent(log[Len(log)])].body)

(***************************************************************************)
(* Handles of a fresh find.                                                *)
(***************************************************************************)
\* the node arrived at from `node` by taking, for each index in turn, the
\* element of the body sequence at that index (Null: there is none)
RECURSIVE Arrive(_, _, _)
Arrive(h, node, indices) ==
    IF indices = <<>> THEN node
    ELSE IF node = Null \/ "body" \notin DOMAIN h[node] THEN Null
    ELSE Arrive(h, ElementAt(h[node].body, Head(indices)), Tail(indices))

\* C25: right after find on the API of the Transformer's current tree, the
\* walk from the root through body sequences along the indices of a handle's
\* path arrives at the handle's value, and the path is empty exactly for
\* the Program root.
C25_FreshPathArrivesAtValue ==
    (FreshResult /\ asts[query.api] = rootAST) =>
        \A k \in DOMAIN collection :
            /\ Arrive(heap, rootAST, IndexPath(collection[k].path)) = collection[k].value
            /\ collection[k].path = <<>> <=> collection[k].value = rootAST
            /\ collection[k].path = <<>> <=> heap[collection[k].value].type = "Program"

\* a fresh find that returned an inserted command three levels down
C25_Witness ==
    /\ FreshResult /\ asts[query.api] = rootAST
    /\ \E k \in DOMAIN collection :
        /\ Len(collection[k].path) >= 3
        /\ query.kind = "Command"
        /\ heap[collection[k].value].name = "echo"

\* a fresh find that returned the Program root
C25_WitnessRoot ==
    /\ FreshResult /\ asts[query.api] = rootAST
    /\ \E k \in DOMAIN collection : collection[k].path = <<>>

(***************************************************************************)
(* Removing every handle of one find.                                      *)
(***************************************************************************)
\* remove() has been called once through every handle of the collection,
\* handle order(j) by the j-th call, and nothing else since the find
RemovePassDone(order(_)) ==
    /\ collection # <<>>
    /\ Len(log) = Len(collection)
    /\ \A j \in DOMAIN log : log[j].op = "remove" /\ log[j].handle = order(j)

LastFirst(j) == Len(collection) - j + 1
FirstFirst(j) == j

\* the tree under `root` is the tree of heap `pre` with exactly the nodes
\* `found` and their subtrees taken out: every other node is still there,
\* with its fields as they were and its remaining children in their order
ExactlyRemoved(pre, post, root, found) ==
    LET gone == UNION { Subtree(pre, v) : v \in found }
        kept == Reachable(pre, root) \ gone
        Stays(n) == n \notin found
    IN  /\ Reachable(post, root) = kept
        /\ \A n \in kept : \A f \in DOMAIN pre[n] :
                post[n][f] = IF f \in ChildFields THEN SelectSeq(pre[n][f], Stays)
                             ELSE pre[n][f]

\* C26 as stated: remove() on every handle of one find result, last handle
\* first, removes exactly the found nodes with their subtrees and leaves
\* every other node in place and in order.
C26_ReverseRemovesFound ==
    RemovePassDone(LastFirst) =>
        ExactlyRemoved(log[1].pre, heap, asts[query.api], Values(collection))

\* C26, for a find on the Transformer's current tree that did not return the
\* Program root: remove() on every handle, last handle first, removes
\* exactly the found nodes with their subtrees and leaves every other node
\* in place and in order.
C26_ReverseRemovesFoundBelowRoot ==
    (/\ RemovePassDone(LastFirst)
     /\ PassOnCurrentTree(Len(log))
     /\ \A k \in DOMAIN collection : collection[k].path # <<>>) =>
        ExactlyRemoved(log[1].pre, heap, asts[query.api], Values(collection))

\* a reverse pass over three handles, two of them siblings
C26_Witness ==
    /\ RemovePassDone(LastFirst)
    /\ PassOnCurrentTree(Len(log))
    /\ Len(collection) >= 3
    /\ \E i, j \in DOMAIN collection :
        /\ i < j
        /\ Init1(IndexPath(collection[i].path)) = Init1(IndexPath(collection[j].path))
        /\ collection[i].path # <<>>

\* a reverse pass over a handle and a handle nested in it
C26_WitnessNested ==
    /\ RemovePassDone(LastFirst)
    /\ PassOnCurrentTree(Len(log))
    /\ \E i, j \in DOMAIN collection :
        /\ i < j
        /\ collection[i].path # <<>>
        /\ collection[j].value \in Subtree(log[1].pre, collection[i].value)

\* a forward pass on the current tree below the root that did not remove
\* exactly the found nodes
C26_ForwardFails ==
    /\ RemovePassDone(FirstFirst)
    /\ PassOnCurrentTree(Len(log))
    /\ \A k \in DOMAIN collection : collection[k].path # <<>>
    /\ ~ExactlyRemoved(log[1].pre, heap, asts[query.api], Values(collection))

(***************************************************************************)
(* replace and the length of the child sequences.                          *)
(***************************************************************************)
\* the empty slots of a sequence
Holes(seq) == {k \in DOMAIN seq : seq[k] = Null}

\* every body sequence of heap `pre` has its length in `post`
SameLengths(pre, post) ==
    \A n \in DOMAIN pre : "body" \in DOMAIN pre[n] =>
        Len(post[n].body) = Len(pre[n].body)

\* the captured index of the call lies within the sequence its path resolves
\* to (a call whose path resolves to no sequence included)
IndexWithin(e) ==
    ResolvedParent(e) # Null =>
        LastIndex(HandleOf(e)) < Len(e.pre[ResolvedParent(e)].body)

\* C27 as stated, on the current tree: after replace(N) through any handle,
\* fresh or stale, every body sequence has the length it had and contains no
\* empty slot.
C27_ReplaceKeepsLengths ==
    \A j \in DOMAIN log : (log[j].op = "replace" /\ PassOnCurrentTree(j)) =>
        /\ SameLengths(log[j].pre, After(j))
        /\ \A n \in DOMAIN After(j) : "body" \in DOMAIN After(j)[n] =>
                Holes(After(j)[n].body) = {}

\* C27, for a handle whose captured index lies within the sequence its path
\* resolves to, as it does for every fresh handle on the current tree: after
\* replace(N) every body sequence has the length it had and no empty slot it
\* did not have.
C27_ReplaceWithinKeepsLengths ==
    \A j \in DOMAIN log : log[j].op = "replace" =>
        /\ (j = 1 /\ PassOnCurrentTree(1)) => IndexWithin(log[j])
        /\ IndexWithin(log[j]) =>
            /\ SameLengths(log[j].pre, After(j))
            /\ \A n \in DOMAIN log[j].pre : "body" \in DOMAIN log[j].pre[n] =>
                    Holes(After(j)[n].body) \subseteq Holes(log[j].pre[n].body)

\* a replace through a stale handle whose index was still within the
\* sequence
C27_Witness ==
    /\ Len(log) >= 2
    /\ StaleAfter(Len(log) - 1)
    /\ log[Len(log)].op = "replace"
    /\ IndexWithin(log[Len(log)])
    /\ heap # log[Len(log)].pre

(***************************************************************************)
(* The shape of the structure under the root.                              *)
(***************************************************************************)
\* the positions node n occupies: parent, child field, place in the sequence
Positions(h, n) ==
    { pos \in UNION { UNION { { <<p, f, i>> : i \in DOMAIN h[p][f] } :
                                f \in ChildFields \cap DOMAIN h[p] } : p \in DOMAIN h } :
        h[pos[1]][pos[2]][pos[3]] = n }

\* the structure under the root is a tree: the root is a Program node that
\* is nobody's child, and every other reachable node occurs at exactly one
\* position of the reachable nodes
IsTree(h, root) ==
    LET reach == Reachable(h, root)
        Within(n) == { pos \in Positions(h, n) : pos[1] \in reach }
    IN  /\ h[root].type = "Program"
        /\ Within(root) = {}
        /\ \A n \in reach \ {root} : Cardinality(Within(n)) = 1

\* no node of the heap, reachable or detached, occurs at two positions or
\* below itself
IsForest(h) ==
    \A n \in DOMAIN h :
        /\ Cardinality(Positions(h, n)) <= 1
        /\ n \notin UNION { Subtree(h, c) : c \in ChildIds(h[n]) }

\* the node is a fresh builder-made node, or a node other than a Program
\* that is an element of no child sequence
Parentless(h, n) ==
    \/ n \notin DOMAIN h
    \/ h[n].type # "Program" /\ Positions(h, n) = {}

\* this step is a mutator call that hands over a node
HandsOver(n) ==
    /\ log' # log /\ log' # <<>>
    /\ log'[Len(log')].newNode = n
    /\ n # Null

\* C28 as stated: when every inserted or replacing node is a fresh
\* builder-made node or the value of a handle on which remove() was called
\* before, the structure reachable from the root stays a tree.
C28_StaysTree ==
    rootAST # Null => IsTree(heap, rootAST)

\* C28, for nodes that are in no child sequence when they are handed over:
\* a mutator call whose node is a fresh builder-made node, or a node other
\* than a Program that is an element of no child sequence at the time of
\* the call, keeps the structure a tree; the value of a fresh handle below
\* the root is such a node right after remove() through that handle.
C28_ParentlessKeepsTree ==
    /\ [](\A k \in DOMAIN collection :
            (/\ Len(log) = 1 /\ log[1].op = "remove" /\ log[1].handle = k
             /\ PassOnCurrentTree(1) /\ collection[k].path # <<>>
             /\ IsForest(log[1].pre)) =>
                Parentless(heap, collection[k].value))
    /\ [][\A n \in DOMAIN heap' :
            (HandsOver(n) /\ IsForest(heap) /\ Parentless(heap, n)) =>
                (IsForest(heap') /\ IsTree(heap', rootAST'))]_vars

\* a removed node has been put back at another place of the tree, which is
\* still a tree
C28_Witness ==
    /\ Len(log) = 2
    /\ log[1].op = "remove" /\ log[2].op = "insertBefore"
    /\ log[2].newNode = collection[log[1].handle].value
    /\ PassOnCurrentTree(2)
    /\ Parentless(log[2].pre, log[2].newNode)
    /\ log[2].newNode \in Reachable(heap, rootAST)
    /\ IsForest(heap)

(***************************************************************************)
(* The counters of the Runner.                                             *)
(***************************************************************************)
\* the run ended in the catch of run(): the transform did not load
LoadFailed == run.n > 0 /\ ~Callable(run.module)

\* C29 as stated: each file contributes to at most one of changed and
\* errors: changed + errors <= processed, and a file whose processing ended
\* in an error is not counted as changed.
C29_OneCounterPerFile ==
    /\ stats.changed + stats.errors <= stats.processed
    /\ stats.changed = run.before.changed + Cardinality(run.differ \ run.failed)

\* C29, with the failed write and the failed load counted as the code
\* counts them: a file adds at most one to each counter, so changed <=
\* processed and errors <= processed + the number of run() calls; within a
\* run errors grows by one per failed file and by one when the transform
\* does not load; a file whose read or transform failed is not counted in
\* changed, a file whose write failed is counted in changed and in errors.
C29_CountersPerFile ==
    /\ stats.changed <= stats.processed
    /\ stats.errors <= stats.processed + run.n
    /\ run.differ \cup run.failed \subseteq 1..Len(Done)
    /\ stats.processed = run.before.processed + Len(Done)
    /\ stats.changed = run.before.changed + Cardinality(run.differ)
    /\ stats.errors = run.before.errors + Cardinality(run.failed)
                        + (IF LoadFailed THEN 1 ELSE 0)

\* a run in which one file failed to be written and another to be read,
\* after a run whose transform did not load
C29_Witness ==
    /\ Returned
    /\ run.failed \cap run.differ # {}
    /\ run.failed \ run.differ # {}
    /\ run.before.errors > run.before.processed

(***************************************************************************)
(* The files of a run.                                                     *)
(***************************************************************************)
\* the files the patterns of this run match, pattern by pattern, a file once
\* for every pattern that matches it; a pattern that does not resolve
\* matches nothing
Matched ==
    Flatten([k \in DOMAIN run.patterns |->
                IF glob(run.patterns[k]).threw THEN <<>> ELSE glob(run.patterns[k]).files])

\* the place of the first occurrence of x in a sequence
First(seq, x) == CHOOSE i \in DOMAIN seq : seq[i] = x /\ \A j \in 1..(i - 1) : seq[j] # x

\* C30: in one run each distinct resolved path is processed exactly once
\* and in resolution order, also when patterns overlap or a pattern fails
\* to resolve; when the transform loads, processed has grown by the number
\* of distinct resolved paths when run returns, whether or not files failed.
C30_EachPathOnceInOrder ==
    /\ \A i, j \in DOMAIN Done : i < j =>
            /\ Done[i] # Done[j]
            /\ Done[i] \in Range(Matched) /\ Done[j] \in Range(Matched)
            /\ First(Matched, Done[i]) < First(Matched, Done[j])
    /\ Range(Done) \subseteq Range(Matched)
    /\ (Returned /\ Callable(run.module)) =>
            /\ Range(Done) = Range(Matched)
            /\ stats.processed = run.before.processed + Cardinality(Range(Matched))

\* a returned run whose patterns both matched one file, with a failed file,
\* after a run one of whose patterns did not resolve
C30_Witness ==
    /\ Returned /\ Callable(run.module)
    /\ Len(Matched) > Len(Done)
    /\ Len(Done) >= 3
    /\ run.failed # {}
    /\ run.before.processed = 1

\* a returned run one of whose patterns did not resolve
C30_WitnessFailedPattern ==
    /\ Returned /\ Callable(run.module)
    /\ \E k \in DOMAIN run.patterns : glob(run.patterns[k]).threw
    /\ Len(Done) = 1
====
